---- MODULE Spec2Model ----
(***************************************************************************)
(* Verification model of the AMI call-state engine of backend/ami.py:      *)
(* the state correlator (event handlers and periodic syncs acting on the   *)
(* live graph) and the AMI transport (read lock, event reader, action      *)
(* senders).                                                               *)
(*                                                                         *)
(* Python strings are modelled as sequences of one-character strings, so   *)
(* that startswith, isdigit, the channel regular expression and the        *)
(* "linkedid:uniqueid" key construction are computed as the code computes  *)
(* them.  Python dicts are functions whose DOMAIN is the set of keys.      *)
(* Call records (the values of active_calls) carry the keys the modelled   *)
(* handlers and the CRM publisher task read.                               *)
(***************************************************************************)
EXTENDS Integers, Sequences, FiniteSets, TLC

(***************************************************************************)
(* Bounds of the model                                                     *)
(***************************************************************************)
\* saturation bound of the per-key counter of scheduled CRM send tasks
MaxCrmTasks == 2
\* largest Callers value a QueueSummary reports in the model
MaxCallers == 1
\* number of events and syncs applied to the correlator in one behaviour
MaxEvents == 3
\* number of event frames Asterisk emits in the transport model
MaxFrames == 2
\* number of actions the callers send in the transport model
MaxActions == 1

(***************************************************************************)
(* String helpers (Python str methods)                                     *)
(***************************************************************************)
\* Python None, distinct from every string (strings hold 1-character items)
None == <<"<None>">>

\* truthiness of an Optional[str]: neither None nor ''
Truthy(v) == v # None /\ v # <<>>

DigitChars == {"0", "1", "2", "3", "4", "5", "6", "7", "8", "9"}

isdigit(s) == Len(s) > 0 /\ \A i \in 1..Len(s) : s[i] \in DigitChars

startswith(s, prefix) ==
    Len(s) >= Len(prefix) /\ SubSeq(s, 1, Len(prefix)) = prefix

endswith(s, suffix) ==
    Len(s) >= Len(suffix) /\ SubSeq(s, Len(s) - Len(suffix) + 1, Len(s)) = suffix

\* "\r\n" is the line break of the transport model, where a line is one item
Whitespace == {" ", "\t", "\r", "\n", "\r\n"}

RECURSIVE lstrip(_)
lstrip(s) == IF s # <<>> /\ Head(s) \in Whitespace THEN lstrip(Tail(s)) ELSE s

RECURSIVE rstrip(_)
rstrip(s) ==
    IF s # <<>> /\ s[Len(s)] \in Whitespace THEN rstrip(SubSeq(s, 1, Len(s) - 1)) ELSE s

strip(s) == rstrip(lstrip(s))

UpperToLower ==
    [c \in {"A", "E", "H", "I", "O", "S", "T"} |->
        CASE c = "A" -> "a" [] c = "E" -> "e" [] c = "H" -> "h" [] c = "I" -> "i"
          [] c = "O" -> "o" [] c = "S" -> "s" [] c = "T" -> "t"]

lower(s) == [i \in 1..Len(s) |-> IF s[i] \in DOMAIN UpperToLower THEN UpperToLower[s[i]] ELSE s[i]]

SetMax(S) == CHOOSE m \in S : \A n \in S : n <= m
SetMin(S) == CHOOSE m \in S : \A n \in S : m <= n

(***************************************************************************)
(* dict helpers                                                            *)
(***************************************************************************)
Get(m, k, default) == IF k \in DOMAIN m THEN m[k] ELSE default
Pop(m, k) == [x \in DOMAIN m \ {k} |-> m[x]]
Put(m, k, v) == [x \in DOMAIN m \cup {k} |-> IF x = k THEN v ELSE m[x]]
EmptyDict == [x \in {} |-> None]

(***************************************************************************)
(* Module-level constants and functions of ami.py                          *)
(***************************************************************************)
AMI_RESPONSE_END == <<"\r\n", "\r\n">>

DIALPLAN_CTX ==
    { <<"s">>, <<"h">>, <<"i">>, <<"t">>, <<"o">>, <<"a">>, <<"e">>,
      <<"s", "t", "a", "r", "t">>, <<"h", "a", "n", "g", "u", "p">>,
      <<"i", "n", "v", "a", "l", "i", "d">>, <<"t", "i", "m", "e", "o", "u", "t">> }

_meaningful(value) ==
    IF ~Truthy(value) THEN FALSE
    ELSE LET v == strip(value) IN
         IF startswith(v, <<"*">>) /\ Len(v) >= 2 /\ isdigit(SubSeq(v, 2, Len(v))) THEN TRUE
         ELSE IF ~isdigit(v) THEN FALSE
         ELSE IF lower(v) \in DIALPLAN_CTX \/ Len(v) <= 2 THEN FALSE
         ELSE IF Len(v) = 4 /\ startswith(v, <<"5">>) THEN FALSE
         ELSE TRUE

\* end of the maximal digit run of s that starts at position i (i-1 if none)
DigitRunEnd(s, i) ==
    LET js == {j \in i..Len(s) : \A k \in i..j : s[k] \in DigitChars}
    IN  IF js = {} THEN i - 1 ELSE SetMax(js)

\* the regular expression /(\d+)- matches at position i of s
_RE_EXT_FROM_CHANNEL(s, i) ==
    /\ s[i] = "/"
    /\ LET e == DigitRunEnd(s, i + 1)
       IN  e >= i + 1 /\ e + 1 <= Len(s) /\ s[e + 1] = "-"

_ext_from_channel(channel) ==
    IF ~Truthy(channel) THEN None
    ELSE LET ms == {i \in 1..Len(channel) : _RE_EXT_FROM_CHANNEL(channel, i)}
         IN  IF ms = {} THEN None
             ELSE LET m == SetMin(ms)
                  IN  SubSeq(channel, m + 1, DigitRunEnd(channel, m + 1))

(***************************************************************************)
(* Values the events of the model carry                                    *)
(***************************************************************************)
PJSIP == <<"P", "J", "S", "I", "P", "/">>
SIP == <<"S", "I", "P", "/">>
\* PJSIP/110-a and PJSIP/110-b: two channels of extension 110
Ch110a == PJSIP \o <<"1", "1", "0", "-", "a">>
Ch110b == PJSIP \o <<"1", "1", "0", "-", "b">>
\* SIP/asterisk-a: a system channel
ChSipAst == SIP \o <<"a", "s", "t", "e", "r", "i", "s", "k", "-", "a">>
\* Asterisk unique ids; a linkedid is the uniqueid of the first channel of a call
Id1 == <<"1">>
Id2 == <<"2">>
\* queue identifiers
Q901 == <<"9", "0", "1">>
Q902 == <<"9", "0", "2">>

Channels == {Ch110a, Ch110b, ChSipAst}
Ext110 == <<"1", "1", "0">>
Ext120 == <<"1", "2", "0">>
Ext200 == <<"2", "0", "0">>
Ext201 == <<"2", "0", "1">>
Ids == {Id1, Id2}
Queues == {Q901, Q902}

\* absent or empty event field
NoField == <<>>

(***************************************************************************)
(* State                                                                   *)
(***************************************************************************)
VARIABLES
    \* AMIExtensionsMonitor live state (ami.py:178-195)
    active_calls,        \* ext -> call-info record
    ch2ext,              \* channel -> ext (the live-channel index)
    ch_callerid,         \* channel -> callerid
    destch2ext,          \* dest channel -> caller ext
    queues,              \* queue name -> [calls_waiting]
    queue_entries,       \* uniqueid -> [queue]
    ch2uniqueid,         \* channel -> uniqueid
    ch2linkedid,         \* channel -> linkedid
    linkedid2channels,   \* linkedid -> set of channels
    linkedid_crm_sent,   \* set of "linkedid:uniqueid" keys
    \* the task running _read_events_async: "running" or "done"
    event_task,
    \* observation: "linkedid:uniqueid" -> number of _send_crm_data tasks
    \* the Hangup handler has created for it (saturating at MaxCrmTasks)
    crm_tasks,
    \* the _send_crm_data tasks created and not yet run, in creation order
    crm_pending,
    \* observation: the payloads _send_crm_data has handed to the publisher
    crm_records,
    \* observation: the rows insert_call_notification has been given
    notifications,
    \* observation: the last event applied and what its handler computed
    last,
    \* observation: number of events and syncs applied so far
    nevents,
    \* the call Asterisk is carrying out, and the events it has yet to send
    flow,
    script,
    \* datetime.now() as a count of clock ticks, and self.monitored
    now,
    monitored,
    \* the queue members (ami.py:189-191): queue_members, "queue:interface" ->
    \* member info; queues[queue]['members'], queue -> interface -> member
    \* info; dynamic_members, the set of keys of the members added through AMI
    queue_members,
    queues_members,
    dynamic_members,
    \* observation: the keys of the members Asterisk has reported as not
    \* dynamic and has not added since, and the keys of the members that have
    \* appeared otherwise than through a sync without Membership or a
    \* QueueMemberStatus event
    not_dynamic,
    appeared,
    \* transport (ami.py:169-175 and the locals of the I/O coroutines)
    read_lock,           \* holder of _read_lock, or Free
    pc,                  \* task -> position in its coroutine
    op,                  \* caller task -> the transport method it runs
    sock,                \* bytes Asterisk has written and nobody has read
    buffer,              \* local buffer of _read_events_async
    chunks,              \* caller task -> list of chunks read so far
    delivered,           \* observation: event frames Asterisk has written
    applied,             \* observation: events _dispatch_async has handled
    parsed,              \* observation: texts _dispatch_async handed to _parse
    nactions,            \* observation: number of transport calls made
    unanswered,          \* actions Asterisk has received and not answered
    closed,              \* Asterisk has closed the connection
    connected,           \* self.connected
    writer,              \* the TCP connection: "none", "open" or "closed"
    returned,            \* observation: what the last transport call returned
    \* the server (server.py): the subscribers a state broadcast in progress
    \* has yet to serve, the broadcast() tasks created and not yet run, and
    \* the last message pushed to each subscriber
    connections,
    broadcast_tasks,
    pushed

server_vars == << connections, broadcast_tasks, pushed >>

member_vars == << queue_members, queues_members, dynamic_members, not_dynamic, appeared >>

correlator_vars ==
    << active_calls, ch2ext, ch_callerid, destch2ext, queues, queue_entries,
       ch2uniqueid, ch2linkedid, linkedid2channels, linkedid_crm_sent,
       crm_tasks, crm_pending, crm_records, notifications, last, nevents, flow, script,
       now, monitored, member_vars, server_vars >>

transport_vars ==
    << read_lock, pc, op, sock, buffer, chunks, delivered, applied, parsed, nactions,
       unanswered, closed, connected, writer, returned >>

vars == << correlator_vars, event_task, transport_vars >>

\* values of call-record keys: a datetime, the value None of answer_time
\* before the answer, the booleans, and the channel states
Clock == <<"<datetime>", now>>
Null == <<"<null>">>
PyTrue == <<"True">>
PyFalse == <<"False">>
StateNew == <<"N", "e", "w">>
StateDialing == <<"D", "i", "a", "l", "i", "n", "g">>
StateRinging == <<"R", "i", "n", "g", "i", "n", "g">>
StateUp == <<"U", "p">>

\* a call-info dict restricted to the keys the modelled handlers and
\* _send_crm_data read; None stands for an absent key, so that the record
\* with every field None is the empty dict
NewCallInfo ==
    [channel |-> None, destchannel |-> None, state |-> None, callerid |-> None,
     caller |-> None, exten |-> None, original_destination |-> None,
     destination |-> None, dialstatus |-> None, queue |-> None,
     queue_waiting |-> None, queue_answered |-> None, queue_caller_channel |-> None,
     queue_caller |-> None, answered_agent |-> None, start_time |-> None,
     answer_time |-> None, linkedid |-> None]

\* info.get(key, default)
Field(info, key, default) == IF info[key] = None THEN default ELSE info[key]

\* self._call_info(ext): active_calls.setdefault(ext, {})
_call_info(calls, ext) == IF ext \in DOMAIN calls THEN calls ELSE Put(calls, ext, NewCallInfo)

\* self._resolve_ext(channel): the extension, and ch2ext with the cached mapping
_resolve_ext(c2e, channel) ==
    LET cached == Get(c2e, channel, None)
        ext == IF Truthy(cached) THEN cached ELSE _ext_from_channel(channel)
    IN  [ext |-> ext,
         ch2ext |-> IF ~Truthy(cached) /\ Truthy(ext) THEN Put(c2e, channel, ext) ELSE c2e]

\* sum(1 for e in queue_entries.values() if e.get('queue') == queue)
waiting_count(entries, queue) ==
    Cardinality({u \in DOMAIN entries : entries[u].queue = queue})

\* if queue in self.queues: self.queues[queue]['calls_waiting'] = waiting_count
recount(qs, entries, queue) ==
    IF queue \in DOMAIN qs
    THEN [qs EXCEPT ![queue].calls_waiting = waiting_count(entries, queue)]
    ELSE qs

\* observation record of an event: what was applied and, for a Hangup, what
\* the handler computed (final: is_final_hangup at ami.py:1200; live_rest: the
\* other channels of the linkedid's set found in ch2ext; emptied: the
\* linkedid's set was deleted at ami.py:1205; raised: the handler raised)
Seen(ev, ch) ==
    [ev |-> ev, ch |-> ch, linkedid |-> NoField, uniqueid |-> NoField,
     final |-> FALSE, live_rest |-> {}, emptied |-> FALSE, raised |-> FALSE]

\* restriction of a dict to the keys in S
Restrict(m, S) == [x \in DOMAIN m \cap S |-> m[x]]

(***************************************************************************)
(* Cause mapping and notification test (ami.py:734-782)                    *)
(***************************************************************************)
LowerCase ==
    << "a", "b", "c", "d", "e", "f", "g", "h", "i", "j", "k", "l", "m",
       "n", "o", "p", "q", "r", "s", "t", "u", "v", "w", "x", "y", "z" >>
UpperCase ==
    << "A", "B", "C", "D", "E", "F", "G", "H", "I", "J", "K", "L", "M",
       "N", "O", "P", "Q", "R", "S", "T", "U", "V", "W", "X", "Y", "Z" >>

\* str.upper()
upper(s) ==
    [i \in 1..Len(s) |->
        IF \E k \in 1..26 : LowerCase[k] = s[i]
        THEN UpperCase[CHOOSE k \in 1..26 : LowerCase[k] = s[i]]
        ELSE s[i]]

\* cause_map.get(cause, 'failed') of lines 745-758
cause_map(cause) ==
    CASE cause = <<"1", "6">> -> "completed"
      [] cause = <<"1", "7">> -> "busy"
      [] cause \in {<<"1", "8">>, <<"1", "9">>, <<"1", "2", "7">>} -> "noanswer"
      [] cause = <<"2", "0">> -> "switched_off"
      [] cause \in {<<"2", "8">>, <<"3", "4">>} -> "invalid_number"
      [] cause \in {<<"2", "1">>, <<"3", "1">>} -> "failed"
      [] cause = <<"0">> -> "busy"
      [] OTHER -> "failed"

\* a mapping in which the dial status overrides nothing
dial_overrides_none(dial_status, status) == status

\* dial_overrides.get(dial_status, status) of lines 762-769
dial_overrides(dial_status, status) ==
    CASE dial_status = <<"C", "A", "N", "C", "E", "L">> -> "noanswer"
      [] dial_status = <<"B", "U", "S", "Y">> -> "busy"
      [] dial_status = <<"C", "O", "N", "G", "E", "S", "T", "I", "O", "N">> -> "failed"
      [] dial_status = <<"C", "H", "A", "N", "U", "N", "A", "V", "A", "I", "L">> -> "failed"
      [] dial_status = <<"N", "O", "A", "N", "S", "W", "E", "R">> -> "noanswer"
      [] OTHER -> status

map_cause_to_status(cause, dial_status) ==
    IF Truthy(dial_status) THEN dial_overrides(upper(dial_status), cause_map(cause))
    ELSE cause_map(cause)

\* a guard that looks at the cause alone
should_notify_by_cause(cause, call_info) ==
    map_cause_to_status(cause, None)
        \in {"busy", "noanswer", "switched_off", "failed", "invalid_number"}

\* call_info is a dict of the caller's: an empty one is falsy
_should_notify_missed_or_busy(cause, call_info) ==
    IF call_info # NewCallInfo /\ call_info.answer_time \notin {None, Null} THEN FALSE
    ELSE map_cause_to_status(cause, None)
            \in {"busy", "noanswer", "switched_off", "failed", "invalid_number"}

\* the server passes a CRM connector to the monitor (self.crm_connector)
crm_connector == TRUE

\* ext.isdigit() and 3 <= len(ext) <= 5, for an Optional[str]
is_agent_ext(ext) == Truthy(ext) /\ isdigit(ext) /\ Len(ext) >= 3 /\ Len(ext) <= 5

(***************************************************************************)
(* The CRM publisher task (ami.py:784-1022)                                *)
(***************************************************************************)
\* a or b or c on Optional[str] values, '' when all are falsy
FirstTruthy(vs) ==
    LET is == {i \in 1..Len(vs) : Truthy(vs[i])}
    IN  IF is = {} THEN <<>> ELSE vs[SetMin(is)]

NoRecord == [skipped |-> TRUE]

\* 978-989: call_type
call_type_of(ext, incoming_caller, destination) ==
    IF Truthy(incoming_caller) /\ incoming_caller # ext THEN "inbound"
    ELSE IF Truthy(destination) /\ destination # ext
    THEN (IF isdigit(destination) /\ Len(destination) >= 3 /\ Len(destination) <= 5
          THEN "internal" ELSE "outbound")
    ELSE "internal"

\* 933-1005: the status override, the answering agent, the test that caller
\* and destination are meaningful, and the payload
crm_payload(d) ==
    LET call_info == d.call_info
        call_status == IF Field(call_info, "queue_answered", PyFalse) = PyTrue
                          /\ d.call_status \in {"noanswer", "failed"}
                       THEN "completed" ELSE d.call_status
        answered_agent == Field(call_info, "answered_agent", <<>>)
        destination == IF Truthy(d.queue) /\ d.destination = d.queue
                          /\ _meaningful(answered_agent)
                       THEN answered_agent ELSE d.destination
    IN  IF ~_meaningful(d.caller) \/ ~_meaningful(destination) THEN NoRecord
        ELSE [skipped |-> FALSE, ext |-> d.ext, Channel |-> d.Channel,
              caller |-> d.caller, destination |-> destination,
              call_status |-> call_status, queue |-> d.queue,
              call_type |-> call_type_of(d.ext, d.incoming_caller, destination)]

\* 862-931: caller and destination
crm_direction(d) ==
    LET ext == d.ext
        call_info == d.call_info
        queue == d.queue
        original_dest == FirstTruthy(<< call_info.original_destination,
                                        call_info.destination, call_info.exten >>)
        candidate == FirstTruthy(<< call_info.queue_caller, call_info.caller,
                                    call_info.callerid >>)
        incoming_caller == IF isdigit(candidate) /\ Len(candidate) <= 5 /\ candidate = ext
                           THEN <<>> ELSE candidate
        is_external_caller == Truthy(ext) /\ (~isdigit(ext) \/ Len(ext) < 3 \/ Len(ext) > 5)
        connected_dest == Field(call_info, "destination", <<>>)
    IN  crm_payload(
          IF /\ Truthy(queue) /\ Truthy(incoming_caller) /\ incoming_caller # ext
             /\ (Len(incoming_caller) > 5 \/ ~isdigit(incoming_caller))
          THEN [d EXCEPT !.caller = incoming_caller, !.destination = ext,
                         !.incoming_caller = incoming_caller]
          ELSE IF is_external_caller
          THEN [d EXCEPT !.caller = ext, !.destination = connected_dest,
                         !.incoming_caller = incoming_caller]
          ELSE IF Truthy(incoming_caller) /\ incoming_caller # ext
          THEN [d EXCEPT !.caller = incoming_caller, !.destination = ext,
                         !.incoming_caller = incoming_caller]
          ELSE [d EXCEPT !.caller = ext,
                         !.destination =
                             IF /\ Truthy(queue) /\ original_dest = queue
                                /\ Truthy(connected_dest) /\ connected_dest # queue
                                /\ is_agent_ext(connected_dest)
                             THEN connected_dest ELSE original_dest,
                         !.incoming_caller = incoming_caller])

\* 841-860: the status of the hangup cause, the queue, and the test that
\* the extension is not the queue itself
crm_status(d) ==
    LET call_info == d.call_info
        queue == IF Truthy(d.queue) THEN d.queue ELSE call_info.queue
    IN  IF Truthy(queue) /\ d.ext = queue THEN NoRecord
        ELSE crm_direction(
               [d EXCEPT !.queue = queue,
                         !.call_status =
                             map_cause_to_status(d.Cause, Field(call_info, "dialstatus", <<>>))])

\* a task without the test of lines 799-839
crm_gate_open(d, calls) == crm_status(d)

\* 799-839: a queue call that is still waiting sends only for the hangup of
\* the caller's channel; calls is self.active_calls when the task runs
crm_queue_gate(d, calls) ==
    LET call_info == d.call_info
        queue_caller == FirstTruthy(<< call_info.queue_caller, call_info.caller >>)
        caller_call_info ==
            IF Truthy(queue_caller) /\ queue_caller # d.ext /\ queue_caller \in DOMAIN calls
                 /\ calls[queue_caller] # NewCallInfo
            THEN calls[queue_caller] ELSE NewCallInfo
        own_waiting == Field(call_info, "queue_waiting", PyFalse)
        own_answered == Field(call_info, "queue_answered", PyFalse)
        own_channel == Field(call_info, "queue_caller_channel", <<>>)
        queue_waiting == Field(caller_call_info, "queue_waiting", own_waiting)
        queue_answered == Field(caller_call_info, "queue_answered", own_answered)
        queue_caller_channel == Field(caller_call_info, "queue_caller_channel", own_channel)
        is_caller_hangup == Truthy(queue_caller_channel) /\ d.Channel = queue_caller_channel
    IN  IF queue_waiting = PyTrue /\ queue_answered # PyTrue /\ ~is_caller_hangup
        THEN NoRecord
        ELSE crm_status(d)

\* the payload the task hands to the publisher, or NoRecord when it returns
\* without one
_send_crm_data(ext, call_info, Cause, Channel, queue, calls) ==
    IF ~crm_connector THEN NoRecord
    ELSE crm_queue_gate(
           [ext |-> ext, call_info |-> call_info, Cause |-> Cause, Channel |-> Channel,
            queue |-> queue, call_status |-> "", caller |-> <<>>, destination |-> <<>>,
            incoming_caller |-> <<>>],
           calls)

(***************************************************************************)
(* Hangup (ami.py:1129-1488)                                               *)
(***************************************************************************)
ASTERISK == <<"a", "s", "t", "e", "r", "i", "s", "k", "-">>

\* f"{linkedid}:{uniqueid}"
LinkedUniqueKey(linkedid, uniqueid) == linkedid \o <<":">> \o uniqueid

\* crm_key = f"{linkedid}:{uniqueid}" if (linkedid and uniqueid) else None
crm_key(linkedid, uniqueid) ==
    IF Truthy(linkedid) /\ Truthy(uniqueid) THEN LinkedUniqueKey(linkedid, uniqueid) ELSE None

\* one more _send_crm_data task for the key
TaskCreated(tasks, key) ==
    Put(tasks, key, IF Get(tasks, key, 0) < MaxCrmTasks THEN Get(tasks, key, 0) + 1 ELSE MaxCrmTasks)

\* the at-most-once guard and hand-off, written three times in _ev_Hangup;
\* attempted: the key was not in the set, the branch that sends was taken
ScheduleCrm(sent, tasks, linkedid, uniqueid) ==
    LET key == crm_key(linkedid, uniqueid)
    IN  IF key # None /\ key \in sent
        THEN [sent |-> sent, tasks |-> tasks, attempted |-> FALSE]
        ELSE [sent |-> IF key # None THEN sent \cup {key} ELSE sent,
              tasks |-> IF crm_connector
                        THEN TaskCreated(tasks, LinkedUniqueKey(linkedid, uniqueid))
                        ELSE tasks,
              attempted |-> TRUE]

\* a handler that counts no other channel of the linkedid's set as active
active_channels_none(live_rest) == {}

\* active_channels of ami.py:1185-1190, given the live other channels of the set
active_channels(live_rest) ==
    {ch_name \in live_rest : ~startswith(ch_name, PJSIP \o ASTERISK)}

\* a trunk test that knows the PJSIP prefix only
is_trunk_channel_pjsip_only(ch) == startswith(ch, PJSIP \o ASTERISK)

\* is_trunk_channel of ami.py:1233
is_trunk_channel(ch) ==
    startswith(ch, PJSIP \o ASTERISK) \/ startswith(ch, SIP \o ASTERISK)

\* A created task holds the dict object of the call record.  While that
\* object is the value of active_calls[owner] the task reads it there; when
\* the keys are popped or their values replaced, the task keeps the object as
\* it is at that moment.
Detach(pending, calls, keys) ==
    [i \in 1..Len(pending) |->
        IF pending[i].owner \in keys
        THEN [pending[i] EXCEPT !.info = calls[pending[i].owner], !.owner = None]
        ELSE pending[i]]

\* The handler is written as the sequence of its blocks.  Each block takes
\* the record s of the handler's locals and of the monitor's fields as the
\* previous blocks left them, and hands its result to the next block.

\* self.active_calls.pop(key, None)
Hangup_pop(s, keys) ==
    [s EXCEPT !.crm_pending = Detach(@, s.active_calls, keys \cap DOMAIN s.active_calls),
              !.active_calls = Restrict(@, DOMAIN @ \ keys)]

\* insert_call_notification(extension=..., call_id=uniqueid, reason=...)
\* under its guard: an extension and a missed, busy or failed hangup
Hangup_notify(s, extension, info) ==
    IF Truthy(extension) /\ _should_notify_missed_or_busy(s.cause, info)
    THEN [s EXCEPT !.notifications =
            @ \cup {[extension |-> extension, call_id |-> s.uniqueid,
                     reason |-> map_cause_to_status(s.cause, None)]}]
    ELSE s

\* 1263-1292, 1342-1373, 1420-1450: the CRM send for a final hangup, with
\* the call record active_calls[owner], from the perspective of ext
Hangup_crm(s, ext, owner) ==
    LET r == ScheduleCrm(s.linkedid_crm_sent, s.crm_tasks, s.linkedid, s.uniqueid)
        task == [ext |-> ext, info |-> s.active_calls[owner], owner |-> owner,
                 Cause |-> s.cause, Channel |-> s.ch, queue |-> s.queue,
                 expected |-> NoRecord]
    IN  IF ~r.attempted THEN s
        ELSE Hangup_notify(
               [s EXCEPT !.linkedid_crm_sent = r.sent,
                         !.crm_tasks = r.tasks,
                         !.crm_pending = IF crm_connector THEN Append(@, task) ELSE @,
                         !.scheduled = crm_connector],
               ext, s.active_calls[owner])

\* 1478-1488: fallback over active_calls
Hangup_fallback(s) ==
    LET ch == s.ch
        calls == s.active_calls
        s1 == Hangup_pop(s, {x \in DOMAIN calls : calls[x].channel = ch})
    IN  [s1 EXCEPT !.active_calls =
            [e \in DOMAIN @ |->
                IF @[e].destchannel = ch THEN [@[e] EXCEPT !.destchannel = None] ELSE @[e]]]

\* 1452-1476: the remaining channels of the extension and its dest channels
Hangup_cleanup(s) ==
    LET ext == s.ext
        channels_to_remove ==
            IF Truthy(ext) THEN {ch_name \in DOMAIN s.ch2ext : s.ch2ext[ch_name] = ext} ELSE {}
        popped == {u \in {s.ch2uniqueid[ch_name] :
                             ch_name \in channels_to_remove \cap DOMAIN s.ch2uniqueid} :
                      Truthy(u) /\ u \in DOMAIN s.queue_entries}
        entries2 == Restrict(s.queue_entries, DOMAIN s.queue_entries \ popped)
    IN  Hangup_fallback(
          [s EXCEPT
             !.ch2ext = Restrict(s.ch2ext, DOMAIN s.ch2ext \ channels_to_remove),
             !.ch_callerid = Restrict(s.ch_callerid,
                                      DOMAIN s.ch_callerid \ (channels_to_remove \cup {s.ch})),
             !.ch2uniqueid = Restrict(s.ch2uniqueid, DOMAIN s.ch2uniqueid \ channels_to_remove),
             !.queue_entries = entries2,
             !.queues = [q \in DOMAIN s.queues |->
                           IF q \in {s.queue_entries[u].queue : u \in popped}
                           THEN [s.queues[q] EXCEPT !.calls_waiting = waiting_count(entries2, q)]
                           ELSE s.queues[q]],
             !.destch2ext = IF Truthy(ext)
                            THEN Restrict(s.destch2ext,
                                          {c \in DOMAIN s.destch2ext : s.destch2ext[c] # ext})
                            ELSE s.destch2ext])

\* 1339-1413: the channel is the main channel of its extension's call
Hangup_ext_main(s) ==
    LET ext_info == s.active_calls[s.ext]
    IN  Hangup_pop(IF s.is_final_hangup THEN Hangup_crm(s, s.ext, s.ext)
                   ELSE Hangup_notify(s, s.ext, ext_info),
                   {s.ext})

\* 1326-1450: the call of the channel's own extension
Hangup_ext_call(s) ==
    LET ext == s.ext
        calls == s.active_calls
        ext_info == Truthy(ext) /\ ext \in DOMAIN calls /\ calls[ext] # NewCallInfo
    IN  Hangup_cleanup(
          IF ~ext_info THEN s
          ELSE IF calls[ext].channel = s.ch
          THEN Hangup_ext_main([s EXCEPT !.matched = "main"])
          ELSE IF calls[ext].destchannel = s.ch
          THEN [s EXCEPT !.matched = "dest", !.active_calls[ext].destchannel = None]
          ELSE IF s.is_final_hangup
          THEN Hangup_crm([s EXCEPT !.matched = "mismatch"], ext, ext)
          ELSE [s EXCEPT !.matched = "mismatch"])

\* 1250-1257: an external caller number is stored in the caller's record
Hangup_caller_number(s) ==
    LET caller_ext == s.caller_ext
    IN  IF isdigit(caller_ext) /\ Len(caller_ext) > 5
        THEN [s EXCEPT
                !.active_calls[caller_ext].callerid = IF Truthy(@) THEN @ ELSE caller_ext,
                !.active_calls[caller_ext].caller = IF Truthy(@) THEN @ ELSE caller_ext]
        ELSE s

\* 1259-1324: the CRM send of the caller's call, and the end of the call or
\* of its reference to the destination channel
Hangup_caller_end(s) ==
    LET caller_ext == s.caller_ext
        actual_ext == IF is_agent_ext(s.ext) THEN s.ext ELSE caller_ext
        notif_ext == IF is_agent_ext(s.ext) THEN s.ext ELSE None
    IN  IF s.is_final_hangup
        THEN Hangup_pop(Hangup_crm(s, actual_ext, caller_ext), {caller_ext})
        ELSE Hangup_notify([s EXCEPT !.active_calls[caller_ext].destchannel = None],
                           notif_ext, s.active_calls[caller_ext])

\* 1238-1324: the channel was the destination channel of caller_ext's call
Hangup_caller_call(s) ==
    LET caller_ext == s.caller_ext
        calls == s.active_calls
        caller_path == /\ Truthy(caller_ext)
                       /\ ~(Truthy(s.ext) /\ s.ext \in DOMAIN calls)
                       /\ caller_ext \in DOMAIN calls
                       /\ \/ calls[caller_ext].destchannel = s.ch
                          \/ calls[caller_ext].channel = s.ch
    IN  Hangup_ext_call(
          IF caller_path
          THEN Hangup_caller_end(Hangup_caller_number([s EXCEPT !.matched = "caller"]))
          ELSE s)

\* 1201-1236: the channel leaves its linkedid's set and the channel indexes
Hangup_untrack(s) ==
    LET ch == s.ch
        linkedid == s.linkedid
        l2c == s.linkedid2channels
        group == IF Truthy(linkedid) THEN l2c[linkedid] \ {ch} ELSE {}
        emptied == Truthy(linkedid) /\ group = {}
        mapped == Get(s.ch2ext, ch, None)
    IN  Hangup_caller_call(
          [s EXCEPT
             !.linkedid2channels = IF ~Truthy(linkedid) THEN l2c
                                   ELSE IF emptied THEN Pop(l2c, linkedid)
                                   ELSE [l2c EXCEPT ![linkedid] = group],
             !.linkedid_crm_sent =
                 IF emptied
                 THEN {k \in s.linkedid_crm_sent : ~startswith(k, linkedid \o <<":">>)}
                 ELSE s.linkedid_crm_sent,
             !.emptied = emptied,
             !.ch2linkedid = IF Truthy(linkedid) THEN Pop(s.ch2linkedid, ch) ELSE s.ch2linkedid,
             !.ext = IF Truthy(mapped) THEN mapped ELSE _ext_from_channel(ch),
             !.ch2ext = Pop(s.ch2ext, ch),
             !.caller_ext = Get(s.destch2ext, ch, None),
             !.destch2ext = Pop(s.destch2ext, ch),
             !.is_final_hangup = s.final /\ ~is_trunk_channel(ch)])

\* a handler that takes a Hangup without linkedid for a final one
is_final_hangup_assumed == TRUE

\* 1177: is_final_hangup as initialised, which is what a Hangup without
\* linkedid keeps (1215-1217)
is_final_hangup_default == FALSE

\* 1177-1202: final-hangup classification; line 1202 indexes
\* linkedid2channels[linkedid] and raises KeyError when the key is missing
Hangup_classify(s) ==
    LET ch == s.ch
        linkedid == s.linkedid
        l2c == s.linkedid2channels
        in_index == linkedid \in DOMAIN l2c
        live_rest == IF Truthy(linkedid) /\ in_index
                     THEN {ch_name \in l2c[linkedid] : ch_name # ch /\ ch_name \in DOMAIN s.ch2ext}
                     ELSE {}
        is_final_hangup == IF ~Truthy(linkedid) THEN is_final_hangup_default
                           ELSE IF in_index THEN active_channels(live_rest) = {}
                           ELSE TRUE
    IN  IF Truthy(linkedid) /\ ~in_index
        THEN [s EXCEPT !.final = is_final_hangup, !.raised = TRUE]
        ELSE Hangup_untrack([s EXCEPT !.final = is_final_hangup, !.live_rest = live_rest])

\* 1163-1175: the linkedid of the event, else the tracked one
Hangup_linkedid(s) ==
    LET ch == s.ch
        event_linkedid == s.linkedid
        tracked_linkedid == Get(s.ch2linkedid, ch, <<>>)
        adopt == Truthy(event_linkedid) /\ ~Truthy(tracked_linkedid)
    IN  Hangup_classify(
          [s EXCEPT
             !.linkedid = IF Truthy(event_linkedid) THEN event_linkedid ELSE tracked_linkedid,
             !.ch2linkedid = IF adopt THEN Put(s.ch2linkedid, ch, event_linkedid)
                             ELSE s.ch2linkedid,
             !.linkedid2channels =
                 IF adopt
                 THEN Put(s.linkedid2channels, event_linkedid,
                          Get(s.linkedid2channels, event_linkedid, {}) \cup {ch})
                 ELSE s.linkedid2channels])

\* 1136-1161: the Uniqueid of the event or of the channel, and its queue entry
Hangup_queue_entry(s) ==
    LET uniqueid == IF Truthy(s.uniqueid) THEN s.uniqueid ELSE Get(s.ch2uniqueid, s.ch, <<>>)
        has_entry == Truthy(uniqueid) /\ uniqueid \in DOMAIN s.queue_entries
        entries1 == IF has_entry THEN Pop(s.queue_entries, uniqueid) ELSE s.queue_entries
    IN  Hangup_linkedid(
          [s EXCEPT
             !.uniqueid = uniqueid,
             !.queue = IF has_entry THEN s.queue_entries[uniqueid].queue ELSE None,
             !.queue_entries = entries1,
             !.queues = IF has_entry
                        THEN recount(s.queues, entries1, s.queue_entries[uniqueid].queue)
                        ELSE s.queues,
             !.ch2uniqueid = Pop(s.ch2uniqueid, s.ch)])

\* the state _ev_Hangup leaves for the event (Channel, Uniqueid, Linkedid,
\* Cause) when it starts with the monitor's fields as the record g gives
\* them: the monitor's fields and the handler's locals final
\* (is_final_hangup at line 1200), live_rest, emptied, raised, and for
\* observation the branch taken (matched) and whether a task was created
HangupFrom(g, ch, p_Uniqueid, p_Linkedid, p_Cause) ==
    Hangup_queue_entry(
      [ch |-> ch, uniqueid |-> p_Uniqueid, linkedid |-> p_Linkedid, cause |-> p_Cause,
       queue |-> None,
       active_calls |-> g.active_calls, ch2ext |-> g.ch2ext,
       ch_callerid |-> g.ch_callerid, destch2ext |-> g.destch2ext,
       queues |-> g.queues, queue_entries |-> g.queue_entries,
       ch2uniqueid |-> g.ch2uniqueid, ch2linkedid |-> g.ch2linkedid,
       linkedid2channels |-> g.linkedid2channels,
       linkedid_crm_sent |-> g.linkedid_crm_sent,
       crm_tasks |-> g.crm_tasks, crm_pending |-> g.crm_pending,
       notifications |-> g.notifications, ext |-> None, caller_ext |-> None,
       final |-> FALSE, is_final_hangup |-> FALSE, live_rest |-> {},
       emptied |-> FALSE, raised |-> FALSE, matched |-> "none", scheduled |-> FALSE])

\* the monitor's fields as they are now
Monitor ==
    [active_calls |-> active_calls, ch2ext |-> ch2ext, ch_callerid |-> ch_callerid,
     destch2ext |-> destch2ext, queues |-> queues, queue_entries |-> queue_entries,
     ch2uniqueid |-> ch2uniqueid, ch2linkedid |-> ch2linkedid,
     linkedid2channels |-> linkedid2channels, linkedid_crm_sent |-> linkedid_crm_sent,
     crm_tasks |-> crm_tasks, crm_pending |-> crm_pending,
     notifications |-> notifications]

\* the state _ev_Hangup leaves when it starts in the current state
HangupOutcome(ch, p_Uniqueid, p_Linkedid, p_Cause) ==
    HangupFrom(Monitor, ch, p_Uniqueid, p_Linkedid, p_Cause)

\* observation: each task created by the handler (the tasks after the first
\* n) is given the payload it would hand to the publisher if it ran as soon
\* as the handler has returned, with calls the active_calls of that moment
Expected(pending, n, calls) ==
    [i \in 1..Len(pending) |->
        IF i <= n THEN pending[i]
        ELSE LET task == pending[i]
                 call_info == IF task.owner # None THEN calls[task.owner] ELSE task.info
             IN  [task EXCEPT !.expected =
                     _send_crm_data(task.ext, call_info, task.Cause, task.Channel,
                                    task.queue, calls)]]

\* the event reader dispatches a Hangup event; an exception of the handler
\* ends _read_events_async (ami.py:436-441)
_ev_Hangup(ch, p_Uniqueid, p_Linkedid, p_Cause) ==
    /\ event_task = "running"
    /\ IF ~Truthy(ch)
       THEN /\ last' = Seen("Hangup", ch)
            /\ UNCHANGED << active_calls, ch2ext, ch_callerid, destch2ext, queues,
                            queue_entries, ch2uniqueid, ch2linkedid, linkedid2channels,
                            linkedid_crm_sent, crm_tasks, crm_pending, notifications,
                            event_task >>
       ELSE LET r == HangupOutcome(ch, p_Uniqueid, p_Linkedid, p_Cause)
            IN  /\ active_calls' = r.active_calls
                /\ ch2ext' = r.ch2ext
                /\ ch_callerid' = r.ch_callerid
                /\ destch2ext' = r.destch2ext
                /\ queues' = r.queues
                /\ queue_entries' = r.queue_entries
                /\ ch2uniqueid' = r.ch2uniqueid
                /\ ch2linkedid' = r.ch2linkedid
                /\ linkedid2channels' = r.linkedid2channels
                /\ linkedid_crm_sent' = r.linkedid_crm_sent
                /\ crm_tasks' = r.crm_tasks
                /\ crm_pending' = Expected(r.crm_pending, Len(crm_pending), r.active_calls)
                /\ notifications' = r.notifications
                /\ last' = [ev |-> "Hangup", ch |-> ch, linkedid |-> r.linkedid,
                            uniqueid |-> r.uniqueid, final |-> r.final,
                            live_rest |-> r.live_rest, emptied |-> r.emptied,
                            raised |-> r.raised]
                /\ event_task' = IF r.raised THEN "done" ELSE "running"
    /\ UNCHANGED crm_records

(***************************************************************************)
(* Channel events (ami.py:478-489, 1063-1127, 1520-1573, 1618-1702)        *)
(***************************************************************************)
\* self._cross_ref(caller, target): target learns of the call from caller
_cross_ref(calls, caller, target) ==
    IF target = caller \/ ~_meaningful(target) THEN calls
    ELSE IF ~isdigit(target) \/ Len(target) > 5 THEN calls
    ELSE LET t == _call_info(calls, target)
         IN  [t EXCEPT ![target].caller = caller,
                       ![target].original_destination = IF Truthy(@) THEN @ ELSE caller]

\* 1093-1107: the call record of the channel's extension
Newchannel_info(calls, ch, ext, callerid, exten) ==
    LET c == _call_info(calls, ext)
        fresh == c[ext].start_time = None
    IN  [c EXCEPT ![ext].channel = ch,
                  ![ext].callerid = callerid,
                  ![ext].exten = IF _meaningful(exten) THEN exten
                                 ELSE IF @ = None THEN <<>> ELSE @,
                  ![ext].state = StateNew,
                  ![ext].start_time = IF fresh THEN Clock ELSE @,
                  ![ext].answer_time = IF fresh THEN Null ELSE @]

\* 1109-1118: a numeric caller id other than the extension is the caller
Newchannel_caller(calls, ext, callerid) ==
    IF ~(Truthy(callerid) /\ callerid # ext /\ isdigit(callerid)) THEN calls
    ELSE LET c == [calls EXCEPT ![ext].caller = callerid]
         IN  IF /\ Len(callerid) <= 5
                /\ callerid \in DOMAIN c
                /\ c[callerid] # NewCallInfo
                /\ c[callerid].original_destination = None
             THEN [c EXCEPT ![callerid].original_destination = ext, ![callerid].exten = ext]
             ELSE c

\* 1120-1127: the dialled number; the Newchannel events of the model carry
\* no ConnectedLineNum
Newchannel_destination(calls, ext, exten) ==
    IF calls[ext].original_destination = None /\ _meaningful(exten) /\ exten # ext
    THEN _cross_ref([calls EXCEPT ![ext].original_destination = exten], ext, exten)
    ELSE calls

_ev_Newchannel(ch, callerid, exten, uniqueid, p_Linkedid) ==
    LET linkedid == IF Truthy(p_Linkedid) THEN p_Linkedid ELSE uniqueid
        from_ch == _ext_from_channel(ch)
        ext == IF ~Truthy(from_ch) /\ _meaningful(exten) THEN exten ELSE from_ch
        skip == ~Truthy(ext) \/ lower(ext) \in DIALPLAN_CTX
    IN  /\ event_task = "running"
        /\ ch2uniqueid' = IF Truthy(uniqueid) THEN Put(ch2uniqueid, ch, uniqueid) ELSE ch2uniqueid
        /\ ch2linkedid' = IF Truthy(linkedid) THEN Put(ch2linkedid, ch, linkedid) ELSE ch2linkedid
        /\ linkedid2channels' =
              IF Truthy(linkedid)
              THEN Put(linkedid2channels, linkedid, Get(linkedid2channels, linkedid, {}) \cup {ch})
              ELSE linkedid2channels
        /\ ch2ext' = IF skip
                     THEN Put(ch2ext, ch, IF _meaningful(callerid) THEN callerid ELSE <<>>)
                     ELSE Put(ch2ext, ch, ext)
        /\ active_calls' =
              IF skip THEN active_calls
              ELSE Newchannel_destination(
                     Newchannel_caller(
                       Newchannel_info(active_calls, ch, ext, callerid, exten), ext, callerid),
                     ext, exten)
        /\ last' = Seen("Newchannel", ch)
        /\ UNCHANGED << ch_callerid, destch2ext, queues, queue_entries, linkedid_crm_sent,
                        crm_tasks, crm_pending, crm_records, notifications, event_task >>

\* 1531-1541: the caller's call record
DialBegin_info(calls, ch, ext, destch) ==
    LET c == _call_info(calls, ext)
        fresh == c[ext].start_time = None
    IN  [c EXCEPT ![ext].channel = ch,
                  ![ext].state = IF @ = None THEN StateDialing ELSE @,
                  ![ext].destchannel = destch,
                  ![ext].start_time = IF fresh THEN Clock ELSE @,
                  ![ext].answer_time = IF fresh THEN Null ELSE @]

\* 1561-1569: the call record of the destination channel's extension
DialBegin_dest(calls, ext, destch, dest_ext) ==
    LET c == _call_info(calls, dest_ext)
    IN  [c EXCEPT ![dest_ext].channel = destch,
                  ![dest_ext].state = IF @ = None THEN StateRinging ELSE @,
                  ![dest_ext].caller = ext]

\* The DialBegin events of the model carry no DestExten and no DialString
\* (dialed stays None, lines 1554-1559 are skipped).
_ev_DialBegin(ch, destch) ==
    LET r == _resolve_ext(ch2ext, ch)
        ext == r.ext
        dest_ext == IF Truthy(destch) THEN _ext_from_channel(destch) ELSE None
        track_dest == Truthy(dest_ext) /\ dest_ext \notin DIALPLAN_CTX
        c2e1 == Put(r.ch2ext, ch, ext)
    IN  /\ event_task = "running"
        /\ IF ~Truthy(ext)
           THEN UNCHANGED << active_calls, ch2ext, destch2ext >>
           ELSE /\ active_calls' =
                      IF track_dest
                      THEN DialBegin_dest(DialBegin_info(active_calls, ch, ext, destch),
                                          ext, destch, dest_ext)
                      ELSE DialBegin_info(active_calls, ch, ext, destch)
                /\ ch2ext' = IF track_dest THEN Put(c2e1, destch, dest_ext) ELSE c2e1
                /\ destch2ext' = IF Truthy(destch) THEN Put(destch2ext, destch, ext) ELSE destch2ext
        /\ last' = Seen("DialBegin", ch)
        /\ UNCHANGED << ch_callerid, queues, queue_entries, ch2uniqueid, ch2linkedid,
                        linkedid2channels, linkedid_crm_sent, crm_tasks, crm_pending,
                        crm_records, notifications, event_task >>

\* lines 1632-1641 (and 1643-1652): track channel ch under bridge_linkedid
BridgeLink(c2l, l2c, ch, bridge_linkedid) ==
    IF Truthy(ch) /\ ch \notin DOMAIN c2l
    THEN [ch2linkedid |-> Put(c2l, ch, bridge_linkedid), linkedid2channels |-> l2c]
    ELSE IF Truthy(ch) /\ c2l[ch] # bridge_linkedid
    THEN LET old_linkedid == c2l[ch]
             l2c1 == IF old_linkedid \in DOMAIN l2c
                     THEN IF l2c[old_linkedid] \ {ch} = {}
                          THEN Pop(l2c, old_linkedid)
                          ELSE [l2c EXCEPT ![old_linkedid] = @ \ {ch}]
                     ELSE l2c
         IN  [ch2linkedid |-> Put(c2l, ch, bridge_linkedid), linkedid2channels |-> l2c1]
    ELSE [ch2linkedid |-> c2l, linkedid2channels |-> l2c]

\* _cid(ch, ext) of lines 1663-1666
_cid(calls, ch, ext) ==
    IF Truthy(ext) /\ ext \in DOMAIN calls /\ calls[ext].callerid # None
    THEN calls[ext].callerid
    ELSE Get(ch_callerid, ch, <<>>)

\* 1674-1678 (and 1680-1684): the destination and the queue of one side; an
\* empty call record is falsy and is left as it is
Bridge_side(calls, own, other, other_cid) ==
    IF ~Truthy(own) \/ calls[own] = NewCallInfo THEN calls
    ELSE [calls EXCEPT
            ![own].destination = IF Truthy(other_cid) /\ other_cid # own THEN other_cid
                                 ELSE IF Truthy(other) THEN other ELSE <<>>,
            ![own].queue = IF Truthy(other) /\ calls[other].queue # None /\ @ = None
                           THEN calls[other].queue ELSE @]

\* 1662-1684: the call records of the two sides
Bridge_calls(calls, ch1, ch2, ext1, ext2) ==
    LET c1 == IF Truthy(ext1) THEN _call_info(calls, ext1) ELSE calls
        c2 == IF Truthy(ext2) THEN _call_info(c1, ext2) ELSE c1
    IN  Bridge_side(Bridge_side(c2, ext1, ext2, _cid(calls, ch2, ext2)),
                    ext2, ext1, _cid(calls, ch1, ext1))

_ev_Bridge(ch1, ch2, p_Linkedid) ==
    LET r1 == _resolve_ext(ch2ext, ch1)
        r2 == _resolve_ext(r1.ch2ext, ch2)
        linkedid1 == IF Truthy(p_Linkedid) THEN p_Linkedid ELSE Get(ch2linkedid, ch1, <<>>)
        linkedid2 == IF Truthy(p_Linkedid) THEN p_Linkedid ELSE Get(ch2linkedid, ch2, <<>>)
        bridge_linkedid == IF Truthy(p_Linkedid) THEN p_Linkedid
                           ELSE IF Truthy(linkedid1) THEN linkedid1 ELSE linkedid2
        b1 == BridgeLink(ch2linkedid, linkedid2channels, ch1, bridge_linkedid)
        b2 == BridgeLink(b1.ch2linkedid, b1.linkedid2channels, ch2, bridge_linkedid)
        l2c == Put(b2.linkedid2channels, bridge_linkedid,
                   Get(b2.linkedid2channels, bridge_linkedid, {}) \cup {ch1, ch2})
    IN  /\ event_task = "running"
        /\ ch2ext' = r2.ch2ext
        /\ IF Truthy(bridge_linkedid)
           THEN ch2linkedid' = b2.ch2linkedid /\ linkedid2channels' = l2c
           ELSE UNCHANGED << ch2linkedid, linkedid2channels >>
        /\ active_calls' = Bridge_calls(active_calls, ch1, ch2, r1.ext, r2.ext)
        /\ last' = Seen("Bridge", ch1)
        /\ UNCHANGED << ch_callerid, destch2ext, queues, queue_entries, ch2uniqueid,
                        linkedid_crm_sent, crm_tasks, crm_pending, crm_records,
                        notifications, event_task >>

\* 1692-1702: the state and the answer time of the extension's call record
Newstate_info(calls, ext, state) ==
    LET c == _call_info(calls, ext)
        fresh == c[ext].start_time = None
    IN  [c EXCEPT ![ext].state = state,
                  ![ext].start_time = IF fresh THEN Clock ELSE @,
                  ![ext].answer_time = IF fresh THEN Null
                                       ELSE IF state = StateUp /\ @ = Null THEN Clock
                                       ELSE @]

\* lines 1704-1711 write dest_state, a key outside the call records of the
\* model, into a record that is not empty
_ev_Newstate(ch, state) ==
    LET r == _resolve_ext(ch2ext, ch)
    IN  /\ event_task = "running"
        /\ ch2ext' = r.ch2ext
        /\ active_calls' = IF Truthy(r.ext) THEN Newstate_info(active_calls, r.ext, state)
                           ELSE active_calls
        /\ last' = Seen("Newstate", ch)
        /\ UNCHANGED << ch_callerid, destch2ext, queues, queue_entries, ch2uniqueid,
                        ch2linkedid, linkedid2channels, linkedid_crm_sent, crm_tasks,
                        crm_pending, crm_records, notifications, event_task >>

(***************************************************************************)
(* Queue events (ami.py:1870-1997)                                         *)
(***************************************************************************)
Unknown == <<"U", "n", "k", "n", "o", "w", "n">>

\* 1949-1957: the call record of the extension the caller's channel maps to
QueueJoin_channel(calls, queue, channel) ==
    LET caller_ext == IF Truthy(channel) THEN Get(ch2ext, channel, None) ELSE None
    IN  IF Truthy(caller_ext) /\ caller_ext \in DOMAIN calls /\ calls[caller_ext] # NewCallInfo
        THEN [calls EXCEPT ![caller_ext].queue = queue,
                           ![caller_ext].queue_waiting = PyTrue,
                           ![caller_ext].queue_caller_channel = channel]
        ELSE calls

\* 1903-1915 and 1959-1970: the call record kept under the caller's number;
\* QueueEntry keeps a start_time the record has (1912-1913), QueueCallerJoin
\* rewrites it (1967)
QueueJoin_caller(ev, calls, queue, callerid, channel) ==
    IF _meaningful(callerid) /\ callerid # Unknown
    THEN [_call_info(calls, callerid) EXCEPT
            ![callerid].queue = queue,
            ![callerid].queue_waiting = PyTrue,
            ![callerid].queue_caller_channel = channel,
            ![callerid].callerid = callerid,
            ![callerid].start_time = IF ev = "QueueEntry" /\ @ # None THEN @ ELSE Clock]
    ELSE calls

\* the part QueueEntry and QueueCallerJoin share; the queue events of the
\* model carry no Linkedid, so lines 1914-1915 and 1968-1969 write nothing
QueueJoin(ev, queue, uniqueid, callerid, channel) ==
    LET entries1 == Put(queue_entries, uniqueid, [queue |-> queue])
        queues1 == IF queue \notin DOMAIN queues
                   THEN Put(queues, queue, [calls_waiting |-> 0])
                   ELSE queues
    IN  /\ event_task = "running"
        /\ IF Truthy(queue) /\ Truthy(uniqueid)
           THEN /\ queue_entries' = entries1
                /\ ch2uniqueid' = IF Truthy(channel)
                                  THEN Put(ch2uniqueid, channel, uniqueid)
                                  ELSE ch2uniqueid
                /\ active_calls' =
                      QueueJoin_caller(ev, QueueJoin_channel(active_calls, queue, channel),
                                       queue, callerid, channel)
                /\ queues' = [queues1 EXCEPT ![queue].calls_waiting = waiting_count(entries1, queue)]
           ELSE UNCHANGED << queue_entries, ch2uniqueid, active_calls, queues >>
        /\ last' = Seen(ev, channel)
        /\ UNCHANGED << ch2ext, ch_callerid, destch2ext, ch2linkedid, linkedid2channels,
                        linkedid_crm_sent, crm_tasks, crm_pending, crm_records,
                        notifications, event_task >>

_ev_QueueEntry(queue, uniqueid, callerid, channel) ==
    QueueJoin("QueueEntry", queue, uniqueid, callerid, channel)

_ev_QueueCallerJoin(queue, uniqueid, callerid, channel) ==
    QueueJoin("QueueCallerJoin", queue, uniqueid, callerid, channel)

_ev_QueueCallerLeave(uniqueid) ==
    /\ event_task = "running"
    /\ IF uniqueid \in DOMAIN queue_entries
       THEN LET entries1 == Pop(queue_entries, uniqueid)
            IN  /\ queue_entries' = entries1
                /\ queues' = recount(queues, entries1, queue_entries[uniqueid].queue)
       ELSE UNCHANGED << queue_entries, queues >>
    /\ last' = Seen("QueueCallerLeave", NoField)
    /\ UNCHANGED << active_calls, ch2ext, ch_callerid, destch2ext, ch2uniqueid, ch2linkedid,
                    linkedid2channels, linkedid_crm_sent, crm_tasks, crm_pending,
                    crm_records, notifications, event_task >>

\* interface.split('/')[-1]
after_last_slash(s) ==
    LET slashes == {i \in 1..Len(s) : s[i] = "/"}
    IN  IF slashes = {} THEN s ELSE SubSeq(s, SetMax(slashes) + 1, Len(s))

\* 2009-2015: the agent's extension, from the member interface or the channel
agent_ext_of(agent_member, agent_channel) ==
    LET from_member == IF Truthy(agent_member) /\ \E i \in 1..Len(agent_member) :
                                                     agent_member[i] = "/"
                       THEN after_last_slash(agent_member)
                       ELSE None
    IN  IF Truthy(from_member) THEN from_member
        ELSE IF Truthy(agent_channel) THEN _ext_from_channel(agent_channel)
        ELSE None

\* 2018-2026: the caller and the queue, on the agent's call record
AgentCalled_caller(calls, agent_ext, queue, callerid) ==
    [_call_info(calls, agent_ext) EXCEPT
       ![agent_ext].caller = IF _meaningful(callerid) THEN callerid ELSE @,
       ![agent_ext].queue_caller = IF _meaningful(callerid) THEN callerid ELSE @,
       ![agent_ext].queue = IF Truthy(queue) THEN queue ELSE @]

\* 2028-2034: queue_waiting of the caller's call record, copied to the agent's
AgentCalled_waiting(calls, agent_ext, callerid) ==
    IF _meaningful(callerid) /\ callerid \in DOMAIN calls /\ calls[callerid] # NewCallInfo
    THEN [calls EXCEPT
            ![agent_ext].queue_waiting =
                IF calls[callerid].queue_waiting = None THEN PyFalse
                ELSE calls[callerid].queue_waiting,
            ![agent_ext].queue_caller_channel =
                IF calls[callerid].queue_caller_channel = None THEN <<>>
                ELSE calls[callerid].queue_caller_channel]
    ELSE calls

\* The AgentCalled events of the model carry a Queue; the key linkedid of
\* line 2026 is outside the call records of the model.
_ev_AgentCalled(queue, agent_channel, agent_member, callerid) ==
    LET agent_ext == agent_ext_of(agent_member, agent_channel)
    IN  /\ event_task = "running"
        /\ active_calls' = IF Truthy(agent_ext)
                           THEN AgentCalled_waiting(
                                  AgentCalled_caller(active_calls, agent_ext, queue, callerid),
                                  agent_ext, callerid)
                           ELSE active_calls
        /\ last' = Seen("AgentCalled", agent_channel)
        /\ UNCHANGED << ch2ext, ch_callerid, destch2ext, queues, queue_entries, ch2uniqueid,
                        ch2linkedid, linkedid2channels, linkedid_crm_sent, crm_tasks,
                        crm_pending, crm_records, notifications, event_task >>

\* 'ANSWER'
ANSWER == <<"A", "N", "S", "W", "E", "R">>

\* 2055-2072: the agent's call record, when it exists and is not empty
AgentConnect_agent(calls, agent_ext, queue, callerid, p_Linkedid) ==
    IF Truthy(agent_ext) /\ agent_ext \in DOMAIN calls /\ calls[agent_ext] # NewCallInfo
    THEN [calls EXCEPT
            ![agent_ext].dialstatus = ANSWER,
            ![agent_ext].queue_answered = PyTrue,
            ![agent_ext].queue_waiting = PyFalse,
            ![agent_ext].answered_agent = agent_ext,
            ![agent_ext].caller = IF _meaningful(callerid) THEN callerid ELSE @,
            ![agent_ext].queue_caller = IF _meaningful(callerid) THEN callerid ELSE @,
            ![agent_ext].queue = IF Truthy(queue) THEN queue ELSE @,
            ![agent_ext].linkedid = IF Truthy(p_Linkedid) THEN p_Linkedid ELSE @,
            ![agent_ext].answer_time = IF @ = None \/ @ = Null THEN Clock ELSE @]
    ELSE calls

\* 2079-2096: the call record kept under the caller's number
AgentConnect_caller(calls, agent_ext, queue, callerid, p_Linkedid) ==
    LET c == IF callerid \in DOMAIN calls /\ calls[callerid] # NewCallInfo
             THEN calls
             ELSE [_call_info(calls, callerid) EXCEPT ![callerid].callerid = callerid]
    IN  IF _meaningful(callerid)
        THEN [c EXCEPT
                ![callerid].dialstatus = ANSWER,
                ![callerid].queue_answered = PyTrue,
                ![callerid].queue_waiting = PyFalse,
                ![callerid].answered_agent = agent_ext,
                ![callerid].destination = agent_ext,
                ![callerid].queue = IF Truthy(queue) THEN queue ELSE @,
                ![callerid].linkedid = IF Truthy(p_Linkedid) THEN p_Linkedid ELSE @]
        ELSE calls

\* 2099-2114: every call record whose channel is in the linkedid's group
AgentConnect_linked(calls, agent_ext, queue, callerid, p_Linkedid) ==
    LET same_call(ext) ==
            /\ calls[ext].linkedid = p_Linkedid \/ (isdigit(ext) /\ Len(ext) \in 3..5)
            /\ Get(ch2linkedid, Field(calls[ext], "channel", <<>>), <<>>) = p_Linkedid
    IN  IF Truthy(p_Linkedid)
        THEN [ext \in DOMAIN calls |->
                IF same_call(ext)
                THEN [calls[ext] EXCEPT
                        !.caller = IF _meaningful(callerid) THEN callerid ELSE @,
                        !.queue_caller = IF _meaningful(callerid) THEN callerid ELSE @,
                        !.queue = IF Truthy(queue) THEN queue ELSE @,
                        !.dialstatus = ANSWER,
                        !.queue_answered = PyTrue,
                        !.queue_waiting = PyFalse,
                        !.answered_agent = agent_ext]
                ELSE calls[ext]]
        ELSE calls

_ev_AgentConnect(queue, agent_channel, agent_member, callerid, p_Linkedid) ==
    LET agent_ext == agent_ext_of(agent_member, agent_channel)
        c1 == AgentConnect_agent(active_calls, agent_ext, queue, callerid, p_Linkedid)
        c2 == AgentConnect_caller(c1, agent_ext, queue, callerid, p_Linkedid)
    IN  /\ event_task = "running"
        /\ active_calls' = AgentConnect_linked(c2, agent_ext, queue, callerid, p_Linkedid)
        /\ last' = Seen("AgentConnect", agent_channel)
        /\ UNCHANGED << ch2ext, ch_callerid, destch2ext, queues, queue_entries, ch2uniqueid,
                        ch2linkedid, linkedid2channels, linkedid_crm_sent, crm_tasks,
                        crm_pending, crm_records, notifications, event_task >>

\* the event loop runs the oldest created task
RunCrmTask ==
    /\ crm_pending # <<>>
    /\ LET task == Head(crm_pending)
           call_info == IF task.owner # None THEN active_calls[task.owner] ELSE task.info
           record == _send_crm_data(task.ext, call_info, task.Cause, task.Channel,
                                    task.queue, active_calls)
       IN  /\ crm_records' = IF record.skipped THEN crm_records
                             ELSE Append(crm_records, record)
           /\ crm_pending' = Tail(crm_pending)
    /\ UNCHANGED << active_calls, ch2ext, ch_callerid, destch2ext, queues, queue_entries,
                    ch2uniqueid, ch2linkedid, linkedid2channels, linkedid_crm_sent,
                    crm_tasks, notifications, last, nevents, flow, script, now, monitored, member_vars,
                    server_vars, event_task,
                    transport_vars >>

(***************************************************************************)
(* Periodic syncs (ami.py:542-654, 2370-2529)                              *)
(***************************************************************************)
\* new_active_calls, new_ch2ext and new_ch_callerid as the loop of lines
\* 559-626 builds them from the active Status rows (each row: a Channel in
\* state Up, no CallerIDNum, no ConnectedLineNum), in the order of the
\* response
RECURSIVE StatusRows(_, _)
StatusRows(rows, acc) ==
    IF rows = <<>> THEN acc
    ELSE LET ch == Head(rows)
             ext == _ext_from_channel(ch)
             existing_info == Get(active_calls, ext, NewCallInfo)
             info == [existing_info EXCEPT
                        !.start_time = IF @ = None THEN Clock ELSE @,
                        !.answer_time = IF @ = None THEN Null ELSE @,
                        !.channel = ch,
                        !.callerid = NoField,
                        !.state = StateUp,
                        !.destination = NoField,
                        !.original_destination = IF @ = None THEN <<>> ELSE @]
         IN  StatusRows(Tail(rows),
                        IF ~Truthy(ch) \/ ~Truthy(ext) THEN acc
                        ELSE [new_active_calls |-> Put(acc.new_active_calls, ext, info),
                              new_ch2ext |-> Put(acc.new_ch2ext, ch, ext),
                              new_ch_callerid |-> Put(acc.new_ch_callerid, ch, NoField)])

\* sync_active_calls with a Status response listing the channels of rows;
\* the method is modelled from the point where the response has been read
sync_active_calls(rows) ==
    LET new == StatusRows(rows, [new_active_calls |-> EmptyDict, new_ch2ext |-> EmptyDict,
                                 new_ch_callerid |-> EmptyDict])
        new_ch2ext_set == DOMAIN new.new_ch2ext
        new_active_exts == DOMAIN new.new_active_calls
        gone == {ch2uniqueid[ch] : ch \in DOMAIN ch2uniqueid \ new_ch2ext_set}
                    \cap DOMAIN queue_entries
        entries1 == Restrict(queue_entries, DOMAIN queue_entries \ gone)
    IN  /\ active_calls' = new.new_active_calls
        /\ ch2ext' = new.new_ch2ext
        /\ ch_callerid' = new.new_ch_callerid
        /\ destch2ext' = Restrict(destch2ext,
                                  {ch \in DOMAIN destch2ext :
                                      ch \in new_ch2ext_set \/ destch2ext[ch] \in new_active_exts})
        /\ queue_entries' = entries1
        /\ queues' = [q \in DOMAIN queues |->
                         IF q \in {queue_entries[u].queue : u \in gone}
                         THEN [queues[q] EXCEPT !.calls_waiting = waiting_count(entries1, q)]
                         ELSE queues[q]]
        /\ ch2uniqueid' = Restrict(ch2uniqueid, new_ch2ext_set)
        /\ crm_pending' = Detach(crm_pending, active_calls, DOMAIN active_calls)
        /\ last' = Seen("sync_active_calls", NoField)
        /\ UNCHANGED << ch2linkedid, linkedid2channels, linkedid_crm_sent, crm_tasks,
                        crm_records, notifications, event_task >>

\* the loop of lines 2397-2461 over the queues of the summary, in dict order;
\* status[q] is the set of Uniqueid values of the QueueEntry events in the
\* QueueStatus response for q, each handed to _add_queue_entry (2510-2529)
RECURSIVE QueueStatusLoop(_, _, _, _)
QueueStatusLoop(order, status, qs, entries) ==
    IF order = <<>> THEN [queues |-> qs, queue_entries |-> entries]
    ELSE LET queue_name == Head(order)
             entries1 == [u \in DOMAIN entries \cup status[queue_name] |->
                             IF u \in status[queue_name] THEN [queue |-> queue_name]
                             ELSE entries[u]]
             qs1 == IF status[queue_name] # {} THEN recount(qs, entries1, queue_name) ELSE qs
         IN  QueueStatusLoop(Tail(order), status, qs1, entries1)

\* sync_queue_status with a QueueSummary response giving summary[q] = Callers
\* and the QueueStatus responses status; the awaits inside are not interleaved
\* with event handlers in the model
sync_queue_status(summary, order, status) ==
    LET old_queues == {queue_entries[u].queue : u \in DOMAIN queue_entries}
        qs0 == [q \in DOMAIN queues |->
                   IF q \in old_queues THEN [queues[q] EXCEPT !.calls_waiting = 0]
                   ELSE queues[q]]
        qs1 == [q \in DOMAIN qs0 \cup DOMAIN summary |->
                   IF q \in DOMAIN summary THEN [calls_waiting |-> summary[q]] ELSE qs0[q]]
        r == QueueStatusLoop(order, status, qs1, EmptyDict)
    IN  /\ queues' = r.queues
        /\ queue_entries' = r.queue_entries
        /\ last' = Seen("sync_queue_status", NoField)
        /\ UNCHANGED << active_calls, ch2ext, ch_callerid, destch2ext, ch2uniqueid,
                        ch2linkedid, linkedid2channels, linkedid_crm_sent, crm_tasks,
                        crm_pending, crm_records, notifications, event_task >>

\* the duplicate-free lists over S (the orders a response can list S in)
Orderings(S) ==
    UNION {{s \in [1..n -> S] : \A i, j \in 1..n : i # j => s[i] # s[j]} :
              n \in 0..Cardinality(S)}

(***************************************************************************)
(* Specification of the correlator                                         *)
(***************************************************************************)
Tasks == {"reader", "caller"}
Free == "free"

TransportInit ==
    /\ read_lock = Free
    /\ pc = [t \in Tasks |-> "idle"]
    /\ op = "none"
    /\ sock = <<>>
    /\ buffer = <<>>
    /\ chunks = <<>>
    /\ delivered = <<>>
    /\ applied = <<>>
    /\ parsed = {}
    /\ nactions = 0
    /\ unanswered = <<>>
    /\ closed = FALSE
    /\ connected = TRUE
    /\ writer = "open"
    /\ returned = None

\* no scripted call: the events are the ones the actions choose
NoFlow == [name |-> "none"]

\* the WebSocket clients of the server: two supervisors of extension 110 and
\* queue 901 (the scope manager.connect stored for them, server.py:1200-1201)
Subscribers == {"ws1", "ws2"}
NoMessage == [type |-> "none"]

\* AMIExtensionsMonitor.__init__ (ami.py:178-195)
CorrelatorInit ==
    /\ active_calls = EmptyDict
    /\ ch2ext = EmptyDict
    /\ ch_callerid = EmptyDict
    /\ destch2ext = EmptyDict
    /\ queues = EmptyDict
    /\ queue_entries = EmptyDict
    /\ ch2uniqueid = EmptyDict
    /\ ch2linkedid = EmptyDict
    /\ linkedid2channels = EmptyDict
    /\ linkedid_crm_sent = {}
    /\ crm_tasks = EmptyDict
    /\ crm_pending = <<>>
    /\ crm_records = <<>>
    /\ notifications = {}
    /\ last = Seen("none", NoField)
    /\ nevents = 0
    /\ now = 0
    /\ queue_members = EmptyDict
    /\ queues_members = EmptyDict
    /\ dynamic_members = {}
    /\ not_dynamic = {}
    /\ appeared = {}
    /\ connections = <<>>
    /\ broadcast_tasks = <<>>
    /\ pushed = [ws \in Subscribers |-> NoMessage]

\* the monitor once connect() has succeeded and the event reader is started
MonitorInit ==
    /\ CorrelatorInit
    /\ event_task = "running"
    /\ TransportInit

\* the extensions monitor_extensions was given (ami.py:2582, server.py:638)
Monitored == {{Ext110}, {Ext110, Ext120, Ext200, Ext201}}

Init ==
    /\ MonitorInit
    /\ monitored = {Ext110}
    /\ flow = NoFlow
    /\ script = <<>>

OptIds == Ids \cup {NoField}

\* the Uniqueid Asterisk gave the channel: every event about a channel
\* carries that channel's own Uniqueid
Id3 == <<"3">>
\* hangup cause 16, normal clearing
Cause16 == <<"1", "6">>
UniqueidOf(ch) == IF ch = Ch110a THEN Id1 ELSE IF ch = Ch110b THEN Id2 ELSE Id3

\* one event the reader dispatches, or one sync another task runs, with the
\* transport left as it is
ApplyUpTo(bound, A) ==
    /\ nevents < bound
    /\ nevents' = nevents + 1
    /\ A
    /\ UNCHANGED << flow, script, now, monitored, member_vars, server_vars, transport_vars >>

Apply(A) == ApplyUpTo(MaxEvents, A)

Newchannel == \E ch \in Channels, linkedid \in OptIds :
                 Apply(_ev_Newchannel(ch, NoField, NoField, UniqueidOf(ch), linkedid))
Hangup == \E ch \in Channels, linkedid \in OptIds :
             Apply(_ev_Hangup(ch, UniqueidOf(ch), linkedid, Cause16))
DialBegin == \E ch \in Channels, destch \in Channels :
                ch # destch /\ Apply(_ev_DialBegin(ch, destch))
Bridge == \E ch1 \in Channels, ch2 \in Channels, linkedid \in OptIds :
             ch1 # ch2 /\ Apply(_ev_Bridge(ch1, ch2, linkedid))
Newstate == \E ch \in Channels : Apply(_ev_Newstate(ch, StateUp))
SyncActiveCalls == \E rows \in Orderings(Channels) : Apply(sync_active_calls(rows))

Next ==
    \/ Newchannel
    \/ Hangup
    \/ DialBegin
    \/ Bridge
    \/ Newstate
    \/ SyncActiveCalls
    \/ RunCrmTask

Spec == Init /\ [][Next]_vars

(***************************************************************************)
(* Specification of the queue tracking: the queue events, the queue sync,  *)
(* and the channel events and call sync that delete queue entries          *)
(***************************************************************************)
\* the channels of the callers waiting in queues
Callers == {Ch110a, Ch110b}

\* the queue names in the order the QueueSummary response lists them
SummaryOrder(SQ) ==
    IF SQ = {} THEN <<>>
    ELSE IF SQ = {Q901} THEN <<Q901>>
    ELSE IF SQ = {Q902} THEN <<Q902>>
    ELSE <<Q901, Q902>>

QueueEntry == \E queue \in Queues, channel \in Callers :
                 Apply(_ev_QueueEntry(queue, UniqueidOf(channel), NoField, channel))
QueueCallerJoin == \E queue \in Queues, channel \in Callers :
                      Apply(_ev_QueueCallerJoin(queue, UniqueidOf(channel), NoField, channel))
QueueCallerLeave == \E uniqueid \in Ids : Apply(_ev_QueueCallerLeave(uniqueid))
\* Asterisk lists a waiting caller under one queue only
SyncQueueStatus ==
    \E SQ \in SUBSET Queues :
       \E summary \in [SQ -> 0..MaxCallers], status \in [SQ -> SUBSET Ids] :
          /\ \A q1, q2 \in SQ : q1 # q2 => status[q1] \cap status[q2] = {}
          /\ Apply(sync_queue_status(summary, SummaryOrder(SQ), status))
CallerNewchannel == \E ch \in Callers :
                       Apply(_ev_Newchannel(ch, NoField, NoField, UniqueidOf(ch), NoField))
CallerHangup == \E ch \in Callers : \E uniqueid \in {UniqueidOf(ch), NoField} :
                   Apply(_ev_Hangup(ch, uniqueid, NoField, Cause16))
CallerSync == \E rows \in Orderings(Callers) : Apply(sync_active_calls(rows))

NextQueue ==
    \/ QueueEntry
    \/ QueueCallerJoin
    \/ QueueCallerLeave
    \/ SyncQueueStatus
    \/ CallerNewchannel
    \/ CallerHangup
    \/ CallerSync

SpecQueue == Init /\ [][NextQueue]_vars

(***************************************************************************)
(* The AMI transport (ami.py:120-134, 271-441, 670-703)                    *)
(*                                                                         *)
(* Text on the socket is a sequence of items: a header line "Key: value"   *)
(* is one item and the line break "\r\n" is one item.  A read returns a    *)
(* non-empty prefix of what Asterisk has written, cut between items.       *)
(***************************************************************************)
CRLF == "\r\n"

\* k, _, v = line.partition(':') with k and v stripped, on the header lines
\* of the model.  Event and response names are compared whole and stay
\* atoms; channel names are the character sequences the handlers take apart.
partition(line) ==
    CASE line = "Event: Newstate" -> [k |-> "Event", v |-> "Newstate"]
      [] line = "Event: Hangup" -> [k |-> "Event", v |-> "Hangup"]
      [] line = "Event: StatusComplete" -> [k |-> "Event", v |-> "StatusComplete"]
      [] line = "Response: Success" -> [k |-> "Response", v |-> "Success"]
      [] line = "Channel: PJSIP/110-a" -> [k |-> "Channel", v |-> Ch110a]

\* the loop of _parse over response.split('\r\n'): later lines overwrite
RECURSIVE ParseLines(_, _)
ParseLines(text, out) ==
    IF text = <<>> THEN out
    ELSE ParseLines(Tail(text),
                    IF Head(text) = CRLF THEN out
                    ELSE Put(out, partition(Head(text)).k, partition(Head(text)).v))

_parse(response) == ParseLines(response, [x \in {} |-> ""])

\* the positions at which AMI_RESPONSE_END occurs in text
EndPositions(text) == {i \in 1..(Len(text) - 1) : SubSeq(text, i, i + 1) = AMI_RESPONSE_END}

\* ''.join(chunks)
RECURSIVE join(_)
join(cs) == IF cs = <<>> THEN <<>> ELSE Head(cs) \o join(Tail(cs))

\* complete_event in full_response
occurs_in(complete_event, full_response) ==
    \E i \in 1..Len(full_response) :
        full_response[i] # CRLF /\ partition(full_response[i]).v = complete_event

WATCHED_EVENTS ==
    { "ExtensionStatus", "PeerStatus", "DeviceStateChange",
      "Newchannel", "Hangup", "Dial", "DialBegin", "DialEnd",
      "Bridge", "NewCallerid", "Newstate", "VarSet",
      "QueueMemberStatus", "QueueMemberAdded", "QueueMemberRemoved",
      "QueueEntry", "QueueCallerJoin", "QueueCallerLeave",
      "QueueMemberPause", "QueueMemberPaused", "QueueMemberUnpause",
      "QueueMemberRingInUse", "QueueSummary",
      "AgentCalled", "AgentConnect", "AgentComplete" }

\* the frames Asterisk writes in the model: two events about PJSIP/110-a,
\* the response to an action, and the event that completes a Status listing
NewstateFrame == <<"Event: Newstate", CRLF, "Channel: PJSIP/110-a", CRLF, CRLF>>
HangupFrame == <<"Event: Hangup", CRLF, "Channel: PJSIP/110-a", CRLF, CRLF>>
EventFrames == {NewstateFrame, HangupFrame}
ResponseFrame == <<"Response: Success", CRLF, CRLF>>
StatusCompleteFrame == <<"Event: StatusComplete", CRLF, CRLF>>
ResponseTo(action) ==
    IF action = "Status" THEN ResponseFrame \o StatusCompleteFrame ELSE ResponseFrame

graph_vars ==
    << active_calls, ch2ext, ch_callerid, destch2ext, queues, queue_entries,
       ch2uniqueid, ch2linkedid, linkedid2channels, linkedid_crm_sent, crm_tasks,
       crm_pending, crm_records, notifications, last >>

\* a lock that is entered without waiting for its holder to leave
AcquireWithoutWaiting(t) == read_lock' = t

\* async with self._read_lock, entered by task t
Acquire(t) == read_lock = Free /\ read_lock' = t

\* _dispatch_async(raw): the handler named after the event, if the event is
\* watched; the frames of the model name Newstate and Hangup handlers
_dispatch_async(raw) ==
    LET p == _parse(raw)
        ev == Get(p, "Event", "")
    IN  /\ parsed' = parsed \cup {raw}
        /\ IF ev \in WATCHED_EVENTS /\ ev = "Newstate"
           THEN applied' = Append(applied, p) /\ _ev_Newstate(Get(p, "Channel", <<>>),
                                                        Get(p, "ChannelStateDesc", <<>>))
           ELSE IF ev \in WATCHED_EVENTS /\ ev = "Hangup"
           THEN /\ applied' = Append(applied, p)
                /\ _ev_Hangup(Get(p, "Channel", <<>>), Get(p, "Uniqueid", <<>>),
                              Get(p, "Linkedid", <<>>), Get(p, "Cause", <<>>))
           ELSE UNCHANGED << applied, graph_vars, event_task >>

\* ---- _read_events_async (ami.py:403-441) ----
\* top of the while loop: the reader enters the lock and starts to read
reader_lock ==
    /\ event_task = "running"
    /\ pc["reader"] = "idle"
    /\ Acquire("reader")
    /\ pc' = [pc EXCEPT !["reader"] = "read"]
    /\ UNCHANGED << correlator_vars, connected, writer, returned, event_task, op, sock, buffer, chunks, delivered,
                    applied, parsed, nactions, unanswered, closed >>

\* reader.read(4096) returns data: buffer += decoded, the lock is left
reader_read ==
    /\ event_task = "running"
    /\ pc["reader"] = "read"
    /\ \E n \in 1..Len(sock) :
          /\ buffer' = buffer \o SubSeq(sock, 1, n)
          /\ sock' = SubSeq(sock, n + 1, Len(sock))
    /\ read_lock' = Free
    /\ pc' = [pc EXCEPT !["reader"] = "dispatch"]
    /\ UNCHANGED << correlator_vars, connected, writer, returned, event_task, op, chunks, delivered, applied, parsed,
                    nactions, unanswered, closed >>

\* asyncio.TimeoutError after EVENT_TIMEOUT without data: continue
reader_timeout ==
    /\ event_task = "running"
    /\ pc["reader"] = "read"
    /\ sock = <<>> /\ ~closed
    /\ read_lock' = Free
    /\ pc' = [pc EXCEPT !["reader"] = "idle"]
    /\ UNCHANGED << correlator_vars, connected, writer, returned, event_task, op, sock, buffer, chunks, delivered,
                    applied, parsed, nactions, unanswered, closed >>

\* reader.read returns b'': connection closed, break
reader_eof ==
    /\ event_task = "running"
    /\ pc["reader"] = "read"
    /\ sock = <<>> /\ closed
    /\ read_lock' = Free
    /\ pc' = [pc EXCEPT !["reader"] = "idle"]
    /\ event_task' = "done"
    /\ UNCHANGED << correlator_vars, connected, writer, returned, op, sock, buffer, chunks, delivered, applied, parsed,
                    nactions, unanswered, closed >>

\* one turn of "while AMI_RESPONSE_END in buffer", or its exit
reader_dispatch ==
    /\ event_task = "running"
    /\ pc["reader"] = "dispatch"
    /\ IF EndPositions(buffer) # {}
       THEN LET i == SetMin(EndPositions(buffer))
                event_data == SubSeq(buffer, 1, i - 1)
            IN  /\ buffer' = SubSeq(buffer, i + 2, Len(buffer))
                /\ IF strip(event_data) # <<>>
                   THEN _dispatch_async(event_data \o AMI_RESPONSE_END)
                   ELSE UNCHANGED << applied, parsed, graph_vars, event_task >>
                /\ pc' = pc
       ELSE /\ pc' = [pc EXCEPT !["reader"] = "idle"]
            /\ UNCHANGED << buffer, applied, parsed, graph_vars, event_task >>
    /\ UNCHANGED << nevents, flow, script, now, monitored, member_vars, server_vars, connected, writer,
                    returned,
                    read_lock, op, sock, chunks, delivered, nactions,
                    unanswered, closed >>

\* ---- the tasks that call the transport methods ----
TransportMethods == {"_send_async", "_send_action_with_events", "_read_async"}

\* a task calls one of the methods and waits for the lock
caller_calls(methods) ==
    /\ pc["caller"] = "idle"
    /\ nactions < MaxActions
    /\ \E method \in methods : op' = method
    /\ nactions' = nactions + 1
    /\ pc' = [pc EXCEPT !["caller"] = "acquire"]
    /\ UNCHANGED << correlator_vars, connected, writer, returned, event_task, read_lock, sock, buffer, chunks, delivered,
                    applied, parsed, unanswered, closed >>

caller_call == caller_calls(TransportMethods)

\* async with self._read_lock of the method (ami.py:310, 324, 361)
caller_lock ==
    /\ pc["caller"] = "acquire"
    /\ Acquire("caller")
    /\ pc' = [pc EXCEPT !["caller"] = IF op = "_read_async" THEN "read" ELSE "write"]
    /\ UNCHANGED << correlator_vars, connected, writer, returned, event_task, op, sock, buffer, chunks, delivered,
                    applied, parsed, nactions, unanswered, closed >>

\* self.writer.write(cmd.encode()); await self.writer.drain()
caller_write ==
    /\ pc["caller"] = "write"
    /\ unanswered' = IF closed THEN unanswered
                     ELSE Append(unanswered, IF op = "_send_async" THEN "Events" ELSE "Status")
    /\ pc' = [pc EXCEPT !["caller"] = "read"]
    /\ UNCHANGED << correlator_vars, connected, writer, returned, event_task, read_lock, op, sock, buffer, chunks,
                    delivered, applied, parsed, nactions, closed >>

\* the method returns value: the lock is left
caller_return(value) ==
    /\ read_lock' = Free
    /\ pc' = [pc EXCEPT !["caller"] = "idle"]
    /\ chunks' = <<>>
    /\ op' = "none"
    /\ returned' = value

\* one turn of the loop of _read_async_unlocked (ami.py:271-306)
_read_async_unlocked ==
    /\ pc["caller"] = "read"
    /\ op \in {"_send_async", "_read_async"}
    /\ \/ \E n \in 1..Len(sock) :
             LET decoded == SubSeq(sock, 1, n)
                 chunks1 == Append(chunks, decoded)
             IN  /\ sock' = SubSeq(sock, n + 1, Len(sock))
                 /\ IF \/ endswith(decoded, AMI_RESPONSE_END)
                       \/ /\ Len(chunks1) > 1
                          /\ endswith(chunks1[Len(chunks1) - 1] \o chunks1[Len(chunks1)],
                                      AMI_RESPONSE_END)
                    THEN caller_return(join(chunks1))
                    ELSE chunks' = chunks1 /\ UNCHANGED << read_lock, pc, op, returned >>
       \/ \* asyncio.TimeoutError (AMI_TIMEOUT without data) or b'': break
          sock = <<>> /\ caller_return(join(chunks)) /\ UNCHANGED sock
    /\ UNCHANGED << correlator_vars, connected, writer, event_task, buffer, delivered,
                    applied, parsed, nactions, unanswered, closed >>

complete_event == "StatusComplete"

\* a loop whose deadline never comes
deadline_never == FALSE

\* 368-369: elapsed >= timeout becomes true at some turn of the loop
deadline_reached == TRUE

\* one turn of the read loop of _send_action_with_events (ami.py:365-401)
_send_action_with_events ==
    /\ pc["caller"] = "read"
    /\ op = "_send_action_with_events"
    /\ \/ \* 369-372: elapsed >= timeout, break
          deadline_reached /\ caller_return(join(chunks)) /\ UNCHANGED sock
       \/ \* 374-394: data arrives before the deadline
          \E n \in 1..Len(sock) :
             LET chunks1 == Append(chunks, SubSeq(sock, 1, n))
             IN  /\ sock' = SubSeq(sock, n + 1, Len(sock))
                 /\ IF occurs_in(complete_event, join(chunks1))
                    THEN caller_return(join(chunks1))
                    ELSE chunks' = chunks1 /\ UNCHANGED << read_lock, pc, op, returned >>
       \/ \* 385-386: b'' from a closed connection, break; 399-401: the read
          \* raises on a connection that was reset, return None
          /\ sock = <<>> /\ closed
          /\ \E value \in {join(chunks), None} : caller_return(value)
          /\ UNCHANGED sock
    /\ UNCHANGED << correlator_vars, connected, writer, event_task, buffer, delivered,
                    applied, parsed, nactions, unanswered, closed >>

\* ---- Asterisk ----
\* Asterisk writes an event frame
AsteriskEvent ==
    /\ ~closed
    /\ Len(delivered) < MaxFrames
    /\ \E frame \in EventFrames :
          /\ sock' = sock \o frame
          /\ delivered' = Append(delivered, _parse(frame))
    /\ UNCHANGED << correlator_vars, connected, writer, returned, event_task, read_lock, pc, op, buffer, chunks,
                    applied, parsed, nactions, unanswered, closed >>

\* Asterisk answers the oldest action it has received
AsteriskResponse ==
    /\ ~closed
    /\ unanswered # <<>>
    /\ sock' = sock \o ResponseTo(Head(unanswered))
    /\ unanswered' = Tail(unanswered)
    /\ UNCHANGED << correlator_vars, connected, writer, returned, event_task, read_lock, pc, op, buffer, chunks,
                    delivered, applied, parsed, nactions, closed >>

\* Asterisk closes the connection
AsteriskClose ==
    /\ ~closed
    /\ writer = "open"
    /\ closed' = TRUE
    /\ UNCHANGED << correlator_vars, connected, writer, returned, event_task, read_lock, pc, op, sock, buffer, chunks,
                    delivered, applied, parsed, nactions, unanswered >>

NextIO ==
    \/ reader_lock
    \/ reader_read
    \/ reader_timeout
    \/ reader_eof
    \/ reader_dispatch
    \/ caller_call
    \/ caller_lock
    \/ caller_write
    \/ _read_async_unlocked
    \/ _send_action_with_events
    \/ AsteriskEvent
    \/ AsteriskResponse
    \/ AsteriskClose

SpecIO == Init /\ [][NextIO]_vars

\* A task runs a multi-event action (Status) while the event reader runs
\* and Asterisk answers, or closes the connection, and sends no event.
\* The event loop runs every task that can run, a read that waits returns
\* when its timeout expires, and asyncio.Lock wakes its waiters in the order
\* they arrived, so a task waiting for the lock gets it.
multi_event_call == caller_calls({"_send_action_with_events"})

NextAction ==
    \/ reader_lock
    \/ reader_read
    \/ reader_timeout
    \/ reader_eof
    \/ reader_dispatch
    \/ multi_event_call
    \/ caller_lock
    \/ caller_write
    \/ _send_action_with_events
    \/ AsteriskResponse
    \/ AsteriskClose

FairAction ==
    /\ WF_vars(reader_read) /\ WF_vars(reader_timeout) /\ WF_vars(reader_eof)
    /\ WF_vars(reader_dispatch)
    /\ SF_vars(caller_lock) /\ WF_vars(caller_write)
    /\ WF_vars(_send_action_with_events)

SpecAction == Init /\ [][NextAction]_vars /\ FairAction

(***************************************************************************)
(* connect() (ami.py:201-228): the task "caller" runs it on a new monitor   *)
(***************************************************************************)
BannerFrame == <<"Asterisk Call Manager/5.0.2", CRLF>>
LoginAccepted == <<"Response: Success", CRLF, "Message: Authentication accepted", CRLF, CRLF>>
LoginRejected == <<"Response: Error", CRLF, "Message: Authentication failed", CRLF, CRLF>>

\* 'Response: Success' in resp
login_succeeded(resp) == \E i \in 1..Len(resp) : resp[i] = "Response: Success"

\* 224-228: the except branch and the fall-through after "Auth failed"
connect_fail ==
    /\ connected' = FALSE
    /\ returned' = PyFalse
    /\ pc' = [pc EXCEPT !["caller"] = "idle"]

connect_vars_rest ==
    << correlator_vars, event_task, op, buffer, delivered, applied, parsed, closed >>

\* 204-205: asyncio.open_connection succeeds, and Asterisk greets the new
\* connection with its banner, or raises
connect_open ==
    /\ pc["caller"] = "idle" /\ nactions < MaxActions
    /\ nactions' = nactions + 1
    /\ \/ /\ writer' = "open"
          /\ connected' = TRUE
          /\ sock' = BannerFrame
          /\ pc' = [pc EXCEPT !["caller"] = "banner_lock"]
          /\ UNCHANGED returned
       \/ connect_fail /\ UNCHANGED << writer, sock >>
    /\ UNCHANGED << connect_vars_rest, read_lock, chunks, unanswered >>

\* async with self._read_lock of _read_async (ami.py:310), for the banner
\* and for the login response
connect_lock ==
    /\ pc["caller"] \in {"banner_lock", "response_lock"}
    /\ Acquire("caller")
    /\ pc' = [pc EXCEPT !["caller"] = IF @ = "banner_lock" THEN "banner" ELSE "response"]
    /\ UNCHANGED << connect_vars_rest, sock, chunks, unanswered, nactions, connected,
                    writer, returned >>

\* _read_async has returned resp: the banner is dropped (208); a response
\* with 'Response: Success' leads to the queue sync (216-223), any other
\* response to lines 224 and 227-228
connect_resp(resp) ==
    /\ read_lock' = Free
    /\ chunks' = <<>>
    /\ IF pc["caller"] = "banner"
       THEN pc' = [pc EXCEPT !["caller"] = "login"] /\ UNCHANGED << connected, returned >>
       ELSE IF login_succeeded(resp)
       THEN pc' = [pc EXCEPT !["caller"] = "sync"] /\ UNCHANGED << connected, returned >>
       ELSE connect_fail

\* one turn of the loop of _read_async_unlocked (ami.py:271-306) inside connect()
connect_read ==
    /\ pc["caller"] \in {"banner", "response"}
    /\ \/ \E n \in 1..Len(sock) :
             LET decoded == SubSeq(sock, 1, n)
                 chunks1 == Append(chunks, decoded)
             IN  /\ sock' = SubSeq(sock, n + 1, Len(sock))
                 /\ IF \/ endswith(decoded, AMI_RESPONSE_END)
                       \/ /\ Len(chunks1) > 1
                          /\ endswith(chunks1[Len(chunks1) - 1] \o chunks1[Len(chunks1)],
                                      AMI_RESPONSE_END)
                    THEN connect_resp(join(chunks1))
                    ELSE chunks' = chunks1 /\ UNCHANGED << read_lock, pc, connected, returned >>
       \/ \* asyncio.TimeoutError (AMI_TIMEOUT without data) or b'': break
          sock = <<>> /\ connect_resp(join(chunks)) /\ UNCHANGED sock
    /\ UNCHANGED << connect_vars_rest, unanswered, nactions, writer >>

\* 211-213: the Login action is written; on a connection the peer has
\* closed, drain() returns or raises
connect_login ==
    /\ pc["caller"] = "login"
    /\ \/ /\ unanswered' = IF closed THEN unanswered ELSE Append(unanswered, "Login")
          /\ pc' = [pc EXCEPT !["caller"] = "response_lock"]
          /\ UNCHANGED << connected, returned >>
       \/ closed /\ connect_fail /\ UNCHANGED unanswered
    /\ UNCHANGED << connect_vars_rest, read_lock, sock, chunks, nactions, writer >>

\* 216-223: the initial queue sync, then return True
connect_sync ==
    /\ pc["caller"] = "sync"
    /\ \E SQ \in SUBSET Queues :
          \E summary \in [SQ -> 0..MaxCallers], status \in [SQ -> SUBSET Ids] :
             /\ \A q1, q2 \in SQ : q1 # q2 => status[q1] \cap status[q2] = {}
             /\ sync_queue_status(summary, SummaryOrder(SQ), status)
    /\ returned' = PyTrue
    /\ pc' = [pc EXCEPT !["caller"] = "idle"]
    /\ UNCHANGED << nevents, flow, script, now, monitored, member_vars, server_vars, read_lock, op, sock,
                    buffer,
                    chunks, delivered, applied, parsed, nactions, unanswered, closed,
                    connected, writer >>

\* Asterisk accepts or rejects the Login
AsteriskLogin ==
    /\ ~closed
    /\ unanswered # <<>>
    /\ \E frame \in {LoginAccepted, LoginRejected} : sock' = sock \o frame
    /\ unanswered' = Tail(unanswered)
    /\ UNCHANGED << correlator_vars, event_task, read_lock, pc, op, buffer, chunks,
                    delivered, applied, parsed, nactions, closed, connected, writer,
                    returned >>

\* a monitor as __init__ leaves it (ami.py:158-195): not connected, no task
InitConnect ==
    /\ CorrelatorInit
    /\ monitored = {}
    /\ flow = NoFlow
    /\ script = <<>>
    /\ event_task = "none"
    /\ read_lock = Free
    /\ pc = [t \in Tasks |-> "idle"]
    /\ op = "none"
    /\ sock = <<>>
    /\ buffer = <<>>
    /\ chunks = <<>>
    /\ delivered = <<>>
    /\ applied = <<>>
    /\ parsed = {}
    /\ nactions = 0
    /\ unanswered = <<>>
    /\ closed = FALSE
    /\ connected = FALSE
    /\ writer = "none"
    /\ returned = None

NextConnect ==
    \/ connect_open
    \/ connect_lock
    \/ connect_read
    \/ connect_login
    \/ connect_sync
    \/ AsteriskLogin
    \/ AsteriskClose

SpecConnect == InitConnect /\ [][NextConnect]_vars

(***************************************************************************)
(* Specification of whole calls: Asterisk carries out one call and sends   *)
(* its events in order; the CRM publisher tasks run whenever the event     *)
(* loop gets to them                                                       *)
(***************************************************************************)
\* PJSIP/120-b, PJSIP/200-b, PJSIP/201-b: extension channels
Ch120b == PJSIP \o Ext120 \o <<"-", "b">>
Ch200b == PJSIP \o Ext200 \o <<"-", "b">>
Ch201b == PJSIP \o Ext201 \o <<"-", "b">>
\* PJSIP/sbc-a: the channel of a trunk
ChSbc == PJSIP \o <<"s", "b", "c", "-", "a">>
\* the caller ids a trunk presents: 15551234567, +15551234567, Unknown
CidDigits == <<"1", "5", "5", "5", "1", "2", "3", "4", "5", "6", "7">>
CidPlus == <<"+">> \o CidDigits
\* the feature code *43
Star43 == <<"*", "4", "3">>
\* a queue with a name instead of a number
Sales == <<"s", "a", "l", "e", "s">>
\* hangup cause 17, user busy
Cause17 == <<"1", "7">>

AgentChannels == {Ch200b, Ch201b}

\* an AMI event as the dict _parse returns: absent headers are ''
BlankEvent ==
    [Event |-> "", Channel |-> NoField, CallerIDNum |-> NoField, Exten |-> NoField,
     Uniqueid |-> NoField, Linkedid |-> NoField, DestChannel |-> NoField,
     ChannelStateDesc |-> NoField, Cause |-> NoField, Channel1 |-> NoField,
     Channel2 |-> NoField, Queue |-> NoField, Interface |-> NoField]

\* Asterisk puts Uniqueid and Linkedid on every channel event; ids = "bare"
\* leaves them out, as an event list that names only the other headers does
WithIds(e, ids, uniqueid, linkedid) ==
    IF ids = "full" THEN [e EXCEPT !.Uniqueid = uniqueid, !.Linkedid = linkedid] ELSE e

EvNewchannel(ids, ch, callerid, exten, uniqueid, linkedid) ==
    WithIds([BlankEvent EXCEPT !.Event = "Newchannel", !.Channel = ch,
                               !.CallerIDNum = callerid, !.Exten = exten],
            ids, uniqueid, linkedid)

EvDialBegin(ch, destch) ==
    [BlankEvent EXCEPT !.Event = "DialBegin", !.Channel = ch, !.DestChannel = destch]

EvNewstate(ch, state) ==
    [BlankEvent EXCEPT !.Event = "Newstate", !.Channel = ch, !.ChannelStateDesc = state]

EvBridge(ch1, ch2, linkedid) ==
    [BlankEvent EXCEPT !.Event = "Bridge", !.Channel1 = ch1, !.Channel2 = ch2,
                       !.Linkedid = linkedid]

EvHangup(ids, ch, cause, uniqueid, linkedid) ==
    WithIds([BlankEvent EXCEPT !.Event = "Hangup", !.Channel = ch, !.Cause = cause],
            ids, uniqueid, linkedid)

EvQueueCallerJoin(queue, uniqueid, ch, callerid) ==
    [BlankEvent EXCEPT !.Event = "QueueCallerJoin", !.Queue = queue, !.Uniqueid = uniqueid,
                       !.Channel = ch, !.CallerIDNum = callerid]

EvAgentCalled(queue, interface, destch, callerid, ch) ==
    [BlankEvent EXCEPT !.Event = "AgentCalled", !.Queue = queue, !.Interface = interface,
                       !.DestChannel = destch, !.CallerIDNum = callerid, !.Channel = ch]

\* legs = "listed": only the first channel has a Newchannel event; legs =
\* "announced": every channel of the call has; legs = "dialled": every
\* channel has, and the ringing of an agent has its DialBegin event
Announced(f, events) == IF f.legs \in {"announced", "dialled"} THEN events ELSE <<>>
Dialled(f, events) == IF f.legs = "dialled" THEN events ELSE <<>>

\* A call between two parties: the caller's channel dials exten, the callee's
\* channel answers, the two are bridged under the caller's linkedid, and the
\* two channels hang up with cause 16, first the channel of f.first
TwoPartyCall(f, caller_ch, callerid, exten, callee_ch) ==
    << EvNewchannel(f.ids, caller_ch, callerid, exten, Id1, Id1) >>
    \o Announced(f, << EvNewchannel(f.ids, callee_ch, NoField, NoField, Id2, Id1) >>)
    \o << EvDialBegin(caller_ch, callee_ch),
          EvNewstate(callee_ch, StateUp),
          EvBridge(caller_ch, callee_ch, Id1) >>
    \o (IF f.first = "caller"
        THEN << EvHangup(f.ids, caller_ch, Cause16, Id1, Id1),
                EvHangup(f.ids, callee_ch, Cause16, Id2, Id1) >>
        ELSE << EvHangup(f.ids, callee_ch, Cause16, Id2, Id1),
                EvHangup(f.ids, caller_ch, Cause16, Id1, Id1) >>)

\* extension 110 calls extension 120
InternalCall(f) == TwoPartyCall(f, Ch110a, f.cid, Ext120, Ch120b)

\* a caller on the trunk calls extension 110
InboundCall(f) == TwoPartyCall(f, ChSbc, f.cid, Ext110, Ch110b)

\* extension 110 dials *43 and hangs up
FeatureCodeCall(f) ==
    << EvNewchannel(f.ids, Ch110a, f.cid, Star43, Id1, Id1),
       EvNewstate(Ch110a, StateUp),
       EvHangup(f.ids, Ch110a, Cause16, Id1, Id1) >>

\* the queue rings one agent, whose channel hangs up with cause 17
AgentRing(f, interface, agent_ch, uniqueid) ==
    Announced(f, << EvNewchannel(f.ids, agent_ch, f.cid, NoField, uniqueid, Id1) >>)
    \o << EvAgentCalled(f.queue, interface, agent_ch, f.cid, ChSbc) >>
    \o Dialled(f, << EvDialBegin(ChSbc, agent_ch) >>)
    \o << EvHangup(f.ids, agent_ch, Cause17, uniqueid, Id1) >>

\* a caller on the trunk joins the queue, the queue rings agents 200 and 201
\* one after the other, nobody answers and the caller hangs up with cause 16
QueueAbandonCall(f) ==
    Announced(f, << EvNewchannel(f.ids, ChSbc, f.cid, f.queue, Id1, Id1) >>)
    \o << EvQueueCallerJoin(f.queue, Id1, ChSbc, f.cid) >>
    \o AgentRing(f, PJSIP \o Ext200, Ch200b, Id2)
    \o AgentRing(f, PJSIP \o Ext201, Ch201b, Id3)
    \o << EvHangup(f.ids, ChSbc, Cause16, Id1, Id1) >>

Flow(name, ids, legs, cid, first, queue) ==
    [name |-> name, ids |-> ids, legs |-> legs, cid |-> cid, first |-> first, queue |-> queue]

Flows ==
    { Flow("internal", ids, legs, cid, first, NoField) :
        ids \in {"full", "bare"}, legs \in {"listed", "announced"},
        cid \in {NoField, Ext110}, first \in {"caller", "callee"} }
    \cup
    { Flow("inbound", ids, legs, cid, first, NoField) :
        ids \in {"full", "bare"}, legs \in {"listed", "announced"},
        cid \in {CidDigits, CidPlus}, first \in {"caller", "callee"} }
    \cup
    { Flow("feature", ids, "listed", cid, "caller", NoField) :
        ids \in {"full", "bare"}, cid \in {NoField, Ext110} }
    \cup
    { Flow("queue", ids, legs, cid, "caller", queue) :
        ids \in {"full", "bare"}, legs \in {"listed", "announced", "dialled"},
        cid \in {CidDigits, CidPlus, Unknown}, queue \in {Q901, Sales} }

ScriptOf(f) ==
    CASE f.name = "internal" -> InternalCall(f)
      [] f.name = "inbound" -> InboundCall(f)
      [] f.name = "feature" -> FeatureCodeCall(f)
      [] f.name = "queue" -> QueueAbandonCall(f)

InitCalls ==
    /\ MonitorInit
    /\ monitored \in Monitored
    /\ flow \in Flows
    /\ script = ScriptOf(flow)

\* the reader dispatches the next event of the call to handler A
Play(name, A) ==
    /\ script # <<>>
    /\ Head(script).Event = name
    /\ script' = Tail(script)
    /\ nevents' = nevents + 1
    /\ A
    /\ UNCHANGED << flow, now, monitored, member_vars, server_vars, transport_vars >>

PlayNewchannel ==
    Play("Newchannel",
         LET p == Head(script)
         IN  _ev_Newchannel(p.Channel, p.CallerIDNum, p.Exten, p.Uniqueid, p.Linkedid))
PlayDialBegin ==
    Play("DialBegin", LET p == Head(script) IN _ev_DialBegin(p.Channel, p.DestChannel))
PlayNewstate ==
    Play("Newstate", LET p == Head(script) IN _ev_Newstate(p.Channel, p.ChannelStateDesc))
PlayBridge ==
    Play("Bridge", LET p == Head(script) IN _ev_Bridge(p.Channel1, p.Channel2, p.Linkedid))
PlayHangup ==
    Play("Hangup",
         LET p == Head(script) IN _ev_Hangup(p.Channel, p.Uniqueid, p.Linkedid, p.Cause))
PlayQueueCallerJoin ==
    Play("QueueCallerJoin",
         LET p == Head(script)
         IN  _ev_QueueCallerJoin(p.Queue, p.Uniqueid, p.CallerIDNum, p.Channel))
PlayAgentCalled ==
    Play("AgentCalled",
         LET p == Head(script)
         IN  _ev_AgentCalled(p.Queue, p.DestChannel, p.Interface, p.CallerIDNum))

NextCalls ==
    \/ PlayNewchannel
    \/ PlayDialBegin
    \/ PlayNewstate
    \/ PlayBridge
    \/ PlayHangup
    \/ PlayQueueCallerJoin
    \/ PlayAgentCalled
    \/ RunCrmTask

SpecCalls == InitCalls /\ [][NextCalls]_vars

\* the call is over: every event is handled and every created task has run
CallOver == script = <<>> /\ crm_pending = <<>>

(***************************************************************************)
(* The correlator under a clock that advances between events               *)
(***************************************************************************)
MaxClock == 1

\* datetime.now() is later at a later event
Tick ==
    /\ now < MaxClock
    /\ now' = now + 1
    /\ UNCHANGED << active_calls, ch2ext, ch_callerid, destch2ext, queues, queue_entries,
                    ch2uniqueid, ch2linkedid, linkedid2channels, linkedid_crm_sent,
                    crm_tasks, crm_pending, crm_records, notifications, last, nevents,
                    flow, script, monitored, member_vars, server_vars, event_task, transport_vars >>

\* extension 110 places and answers calls, dials extension 120, calls the
\* queue itself, and is a member of it; an outside caller joins the queue
\* too; a channel hangs up with cause 16 or with cause 17, user busy
MaxClockEvents == 4
Member110 == PJSIP \o Ext110
ClockCallers == {Ext110, CidDigits}
ClockChannels == {Ch110a, Ch120b}
ClockApply(A) == ApplyUpTo(MaxClockEvents, A)

ClockNewchannel == ClockApply(_ev_Newchannel(Ch110a, NoField, NoField, Id1, Id1))
ClockDialBegin == ClockApply(_ev_DialBegin(Ch110a, Ch120b))
ClockNewstate == \E ch \in ClockChannels : ClockApply(_ev_Newstate(ch, StateUp))
ClockQueueEntry == \E callerid \in ClockCallers :
                      ClockApply(_ev_QueueEntry(Q901, Id1, callerid, Ch110a))
ClockQueueCallerJoin == \E callerid \in ClockCallers :
                           ClockApply(_ev_QueueCallerJoin(Q901, Id1, callerid, Ch110a))
ClockAgentCalled == ClockApply(_ev_AgentCalled(Q901, Ch110a, Member110, CidDigits))
ClockAgentConnect == \E linkedid \in {NoField, Id1} :
                        ClockApply(_ev_AgentConnect(Q901, Ch110a, Member110, CidDigits, linkedid))
ClockHangup == \E ch \in ClockChannels, cause \in {Cause16, Cause17} :
                  ClockApply(_ev_Hangup(ch, IF ch = Ch110a THEN Id1 ELSE Id2, Id1, cause))

NextClock ==
    \/ Tick
    \/ ClockNewchannel
    \/ ClockDialBegin
    \/ ClockNewstate
    \/ ClockQueueEntry
    \/ ClockQueueCallerJoin
    \/ ClockAgentCalled
    \/ ClockAgentConnect
    \/ ClockHangup
    \/ RunCrmTask

SpecClock == Init /\ [][NextClock]_vars


(***************************************************************************)
(* The server (server.py): state broadcasts and notification broadcasts     *)
(***************************************************************************)
MaxServerEvents == 3

StateDown == <<"D", "o", "w", "n">>
StateBusy == <<"B", "u", "s", "y">>
StateRing == <<"R", "i", "n", "g">>
DEFAULT_QUEUE_HIDDEN == <<"d", "e", "f", "a", "u", "l", "t">>

\* manager.get_scope(ws): both subscribers are supervisors of extension 110
\* and of queue 901
get_scope(ws) ==
    [role |-> "supervisor", allowed_agent_extensions |-> {Ext110},
     allowed_queue_names |-> {Q901}]

\* allow_ext and allow_queues of server.py:262-263: None (no filter) for an
\* admin, the allowed list for anyone else
allow_of(scope, key) ==
    IF scope.role = "admin" THEN [all |-> TRUE, of |-> {}]
    ELSE [all |-> FALSE, of |-> scope[key]]

\* _format_call_info (server.py:415-441) without the durations
_format_call_info(ext, info) ==
    [extension |-> ext,
     state |-> Field(info, "state", <<>>),
     channel |-> Field(info, "channel", <<>>),
     caller |-> Field(info, "caller", <<>>),
     callerid |-> Field(info, "callerid", <<>>),
     destination |-> Field(info, "destination", <<>>),
     original_destination |-> Field(info, "original_destination", <<>>)]

\* "call_info": None
NoCallInfo == _format_call_info(None, NewCallInfo)

\* 297-306: the display status of an extension that has a call record; the
\* ExtensionStatus table (monitor.extensions) is outside the model, so an
\* extension without a call has status code '-1'
display_status(calls, ext) ==
    IF ext \in DOMAIN calls
    THEN LET state == Field(calls[ext], "state", <<>>)
         IN  IF state = StateRinging THEN "ringing"
             ELSE IF state \in {StateUp, StateBusy} THEN "in_call"
             ELSE IF state = StateRing THEN "dialing"
             ELSE "in_call"
    ELSE "unavailable"

\* a snapshot that classifies no extension as callee
callees_none(calls) == {}

\* 331-334: the extensions whose call has a short all-digit caller
callees(calls) ==
    {ext \in DOMAIN calls :
        LET caller == Field(calls[ext], "caller", <<>>)
        IN  Truthy(caller) /\ isdigit(caller) /\ Len(caller) <= 5}

\* 336-347: the calls of the snapshot
snapshot_calls(calls, allow_ext) ==
    LET shown == {ext \in DOMAIN calls :
                    /\ allow_ext.all \/ ext \in allow_ext.of
                    /\ Truthy(calls[ext].channel) /\ isdigit(ext) /\ ext \notin DIALPLAN_CTX
                    /\ ext \notin callees(calls)
                    /\ LET state == strip(Field(calls[ext], "state", <<>>))
                       IN  ~(state # <<>> /\ lower(state) = lower(StateDown))}
    IN  [ext \in shown |-> _format_call_info(ext, calls[ext])]

\* get_current_state (server.py:282-413); queue_members and the stats are
\* outside the model
get_current_state(allow_ext, allow_queues) ==
    LET exts == IF allow_ext.all THEN monitored ELSE monitored \cap allow_ext.of
        visible(q) == /\ lower(strip(q)) # DEFAULT_QUEUE_HIDDEN
                      /\ allow_queues.all \/ q \in allow_queues.of
    IN  [extensions |->
            [ext \in exts |->
                [extension |-> ext,
                 status |-> display_status(active_calls, ext),
                 call_info |-> IF ext \in DOMAIN active_calls
                                  /\ active_calls[ext] # NewCallInfo
                               THEN _format_call_info(ext, active_calls[ext])
                               ELSE NoCallInfo]],
         active_calls |-> snapshot_calls(active_calls, allow_ext),
         queues |->
            [q \in {q \in DOMAIN queues : visible(q)} |->
                [extension |-> q, calls_waiting |-> queues[q].calls_waiting]],
         queue_entries |->
            [u \in {u \in DOMAIN queue_entries : visible(queue_entries[u].queue)} |->
                [queue |-> queue_entries[u].queue]]]

\* the duplicate-free lists of all of S (list(set) has no defined order)
ListsOf(S) == {order \in Orderings(S) : Len(order) = Cardinality(S)}

\* _broadcast_current_state, lines 255-257: the connections of the moment
broadcast_begin ==
    /\ connections = <<>>
    /\ connections' \in ListsOf(Subscribers)
    /\ pushed' = [ws \in Subscribers |-> NoMessage]
    /\ UNCHANGED << active_calls, ch2ext, ch_callerid, destch2ext, queues, queue_entries,
                    ch2uniqueid, ch2linkedid, linkedid2channels, linkedid_crm_sent,
                    crm_tasks, crm_pending, crm_records, notifications, last, nevents,
                    flow, script, now, monitored, member_vars, broadcast_tasks, event_task,
                    transport_vars >>

\* one turn of the loop of lines 259-271: the state is computed for the
\* connection and sent; the send is an await, so other tasks run before the
\* next turn
broadcast_send ==
    /\ connections # <<>>
    /\ LET scope == get_scope(Head(connections))
           state == get_current_state(allow_of(scope, "allowed_agent_extensions"),
                                      allow_of(scope, "allowed_queue_names"))
       IN  pushed' = [pushed EXCEPT ![Head(connections)] =
                         [type |-> "state_update", data |-> state]]
    /\ connections' = Tail(connections)
    /\ UNCHANGED << active_calls, ch2ext, ch_callerid, destch2ext, queues, queue_entries,
                    ch2uniqueid, ch2linkedid, linkedid2channels, linkedid_crm_sent,
                    crm_tasks, crm_pending, crm_records, notifications, last, nevents,
                    flow, script, now, monitored, member_vars, broadcast_tasks, event_task,
                    transport_vars >>

\* ConnectionManager.broadcast (server.py:135-156), run as the task that
\* _on_call_notification_new created: the same text to every connection
broadcast ==
    /\ broadcast_tasks # <<>>
    /\ pushed' = [ws \in Subscribers |-> Head(broadcast_tasks)]
    /\ broadcast_tasks' = Tail(broadcast_tasks)
    /\ UNCHANGED << active_calls, ch2ext, ch_callerid, destch2ext, queues, queue_entries,
                    ch2uniqueid, ch2linkedid, linkedid2channels, linkedid_crm_sent,
                    crm_tasks, crm_pending, crm_records, notifications, last, nevents,
                    flow, script, now, monitored, member_vars, connections, event_task,
                    transport_vars >>

\* _on_call_notification_new(ext) (server.py:655-661), which the Hangup
\* handler calls after each insert_call_notification
_on_call_notification_new(inserted) ==
    \E order \in ListsOf(inserted) :
        broadcast_tasks' = broadcast_tasks \o
            [i \in 1..Len(order) |->
                [type |-> "call_notification_new", extension |-> order[i].extension]]

\* the reader dispatches an event to handler A of the monitor the server runs
ServerApply(A) ==
    /\ nevents < MaxServerEvents
    /\ nevents' = nevents + 1
    /\ A
    /\ _on_call_notification_new(notifications' \ notifications)
    /\ UNCHANGED << flow, script, now, monitored, member_vars, connections, pushed, transport_vars >>

\* extension 120 dials extension 110; an outside caller joins a queue
ServerNewchannel ==
    \/ ServerApply(_ev_Newchannel(Ch120b, Ext120, Ext110, Id2, Id2))
    \/ ServerApply(_ev_Newchannel(Ch110a, Ext120, NoField, Id1, Id2))
ServerNewstate == \E ch \in {Ch110a, Ch120b}, state \in {StateUp, StateDown} :
                     ServerApply(_ev_Newstate(ch, state))
ServerHangup == \E ch \in {Ch110a, Ch120b}, cause \in {Cause16, Cause17} :
                   ServerApply(_ev_Hangup(ch, IF ch = Ch110a THEN Id1 ELSE Id2, Id2, cause))
ServerQueueCallerJoin == \E queue \in Queues :
                            ServerApply(_ev_QueueCallerJoin(queue, Id3, CidDigits, ChSbc))

InitServer ==
    /\ MonitorInit
    /\ monitored = {Ext110, Ext120}
    /\ flow = NoFlow
    /\ script = <<>>

NextServer ==
    \/ ServerNewchannel
    \/ ServerNewstate
    \/ ServerHangup
    \/ ServerQueueCallerJoin
    \/ RunCrmTask
    \/ broadcast_begin
    \/ broadcast_send
    \/ broadcast

SpecServer == InitServer /\ [][NextServer]_vars

(***************************************************************************)
(* Specification of the CRM status: one _send_crm_data task, created for   *)
(* the hangup of extension 110's call to 120, over the hangup causes, the  *)
(* dial statuses and the values of queue_answered                          *)
(***************************************************************************)
\* the Cause header of the Hangup: the codes of cause_map, codes that are
\* not in it, and a Hangup without the header ('')
Causes ==
    { <<"1", "6">>, <<"1", "7">>, <<"1", "8">>, <<"1", "9">>, <<"1", "2", "7">>,
      <<"2", "0">>, <<"2", "1">>, <<"3", "1">>, <<"2", "8">>, <<"3", "4">>, <<"0">>,
      <<"1">>, <<"2", "6">>, <<>> }

\* call_info['dialstatus']: absent, empty, the DialStatus values of Asterisk,
\* and a value written in lower case
DialStatuses ==
    { None, <<>>, ANSWER, <<"B", "U", "S", "Y">>, <<"N", "O", "A", "N", "S", "W", "E", "R">>,
      <<"C", "A", "N", "C", "E", "L">>,
      <<"C", "O", "N", "G", "E", "S", "T", "I", "O", "N">>,
      <<"C", "H", "A", "N", "U", "N", "A", "V", "A", "I", "L">>,
      <<"b", "u", "s", "y">> }

\* the call record of extension 110 that dialled 120
StatusCall(dialstatus, queue_answered) ==
    [NewCallInfo EXCEPT !.channel = Ch110a, !.state = StateUp,
                        !.destination = Ext120, !.original_destination = Ext120,
                        !.exten = Ext120, !.dialstatus = dialstatus,
                        !.queue_answered = queue_answered]

InitStatus ==
    \E cause \in Causes, dialstatus \in DialStatuses,
       queue_answered \in {None, PyFalse, PyTrue} :
        /\ active_calls = EmptyDict
        /\ ch2ext = EmptyDict
        /\ ch_callerid = EmptyDict
        /\ destch2ext = EmptyDict
        /\ queues = EmptyDict
        /\ queue_entries = EmptyDict
        /\ ch2uniqueid = EmptyDict
        /\ ch2linkedid = EmptyDict
        /\ linkedid2channels = EmptyDict
        /\ linkedid_crm_sent = {LinkedUniqueKey(Id1, Id1)}
        /\ crm_tasks = Put(EmptyDict, LinkedUniqueKey(Id1, Id1), 1)
        /\ crm_pending = << [ext |-> Ext110, info |-> StatusCall(dialstatus, queue_answered),
                             owner |-> None, Cause |-> cause, Channel |-> Ch110a,
                             queue |-> None, expected |-> NoRecord] >>
        /\ crm_records = <<>>
        /\ notifications = {}
        /\ last = [ev |-> "Hangup", Cause |-> cause, dialstatus |-> dialstatus,
                   queue_answered |-> queue_answered]
        /\ nevents = 1
        /\ now = 0
        /\ queue_members = EmptyDict
        /\ queues_members = EmptyDict
        /\ dynamic_members = {}
        /\ not_dynamic = {}
        /\ appeared = {}
        /\ connections = <<>>
        /\ broadcast_tasks = <<>>
        /\ pushed = [ws \in Subscribers |-> NoMessage]
        /\ event_task = "running"
        /\ TransportInit
        /\ monitored = {Ext110}
        /\ flow = NoFlow
        /\ script = <<>>

NextStatus == RunCrmTask

SpecStatus == InitStatus /\ [][NextStatus]_vars

(***************************************************************************)
(* Specification of _meaningful: the function applied to a string          *)
(***************************************************************************)
\* longest value given to _meaningful
MaxValueLen == 4

\* the characters of the values: a digit, the digit 5, the star of a
\* feature code, the letter of the context keyword s, and a blank
ValueChars == {"4", "5", "*", "s", " "}

Values == {None} \cup UNION {[1..n -> ValueChars] : n \in 0..MaxValueLen}

InitMeaningful ==
    /\ MonitorInit
    /\ monitored = {Ext110}
    /\ flow = [name |-> "_meaningful", value |-> None, applied |-> FALSE, result |-> FALSE]
    /\ script \in Values

\* the call _meaningful(value) of a handler
Meaningful ==
    /\ flow.name = "_meaningful"
    /\ ~flow.applied
    /\ flow' = [flow EXCEPT !.value = script, !.applied = TRUE,
                            !.result = _meaningful(script)]
    /\ UNCHANGED << active_calls, ch2ext, ch_callerid, destch2ext, queues, queue_entries,
                    ch2uniqueid, ch2linkedid, linkedid2channels, linkedid_crm_sent,
                    crm_tasks, crm_pending, crm_records, notifications, last, nevents,
                    script, now, monitored, member_vars, server_vars, event_task, transport_vars >>

NextMeaningful == Meaningful

SpecMeaningful == InitMeaningful /\ [][NextMeaningful]_vars

(***************************************************************************)
(* Specification of a channel that starts in a dialplan context: the       *)
(* Newchannel of PJSIP/sbc-a carries Exten=s, and the events that follow   *)
(* are events of that channel                                              *)
(***************************************************************************)
\* number of events applied in one behaviour
MaxContextEvents == 3

ExtenS == <<"s">>

\* the CallerIDNum of the Newchannel: none, an outside number, extension 120
ContextCallers == {NoField, CidDigits, Ext120}

\* get_current_state() for an admin: allow_extensions and allow_queues None
AdminState ==
    get_current_state([all |-> TRUE, of |-> {}], [all |-> TRUE, of |-> {}])

ContextApply(A) == ApplyUpTo(MaxContextEvents, A)

ContextNewchannel == \E callerid \in ContextCallers :
                        ContextApply(_ev_Newchannel(ChSbc, callerid, ExtenS, Id1, Id1))
ContextDialBegin == ContextApply(_ev_DialBegin(ChSbc, Ch110b))
ContextNewstate == \E state \in {StateRing, StateUp} :
                      ContextApply(_ev_Newstate(ChSbc, state))
ContextBridge == ContextApply(_ev_Bridge(ChSbc, Ch110b, Id1))
ContextHangup == ContextApply(_ev_Hangup(ChSbc, Id1, Id1, Cause16))

InitContext ==
    /\ MonitorInit
    /\ monitored = {Ext110, Ext120}
    /\ flow = NoFlow
    /\ script = <<>>

NextContext ==
    \/ ContextNewchannel
    \/ ContextDialBegin
    \/ ContextNewstate
    \/ ContextBridge
    \/ ContextHangup
    \/ RunCrmTask

SpecContext == InitContext /\ [][NextContext]_vars

(***************************************************************************)
(* Specification of a queue call that an agent answers: a trunk caller,    *)
(* agent 200, and the AgentConnect with the caller's linkedid              *)
(***************************************************************************)
\* number of events applied in one behaviour
MaxAnswerEvents == 4

\* the number the trunk caller dialled, as Exten of the trunk's Newchannel
Did == <<"1", "8", "0", "0", "5", "5", "5", "1", "2", "3", "4">>
Member200 == PJSIP \o Ext200

AnswerApply(A) == ApplyUpTo(MaxAnswerEvents, A)

\* the caller's channel, dialling the queue's number or the public number,
\* and the agent's channel; both carry the caller's linkedid
AnswerNewchannel ==
    \/ \E exten \in {Q901, Did} :
          AnswerApply(_ev_Newchannel(ChSbc, CidDigits, exten, Id1, Id1))
    \/ AnswerApply(_ev_Newchannel(Ch200b, CidDigits, NoField, Id2, Id1))
AnswerQueueCallerJoin == AnswerApply(_ev_QueueCallerJoin(Q901, Id1, CidDigits, ChSbc))
AnswerAgentCalled == AnswerApply(_ev_AgentCalled(Q901, Ch200b, Member200, CidDigits))
AnswerAgentConnect == AnswerApply(_ev_AgentConnect(Q901, Ch200b, Member200, CidDigits, Id1))
AnswerHangup == \E ch \in {ChSbc, Ch200b} :
                   AnswerApply(_ev_Hangup(ch, IF ch = ChSbc THEN Id1 ELSE Id2, Id1, Cause16))

InitAnswer ==
    /\ MonitorInit
    /\ monitored = {Ext200}
    /\ flow = NoFlow
    /\ script = <<>>

NextAnswer ==
    \/ AnswerNewchannel
    \/ AnswerQueueCallerJoin
    \/ AnswerAgentCalled
    \/ AnswerAgentConnect
    \/ AnswerHangup
    \/ RunCrmTask

SpecAnswer == InitAnswer /\ [][NextAnswer]_vars

(***************************************************************************)
(* Specification of events that lack their identifying field: a Newchannel,*)
(* Hangup, Newstate or DialBegin without Channel, a Bridge without         *)
(* Channel1 or Channel2, among whole events of extension 110               *)
(***************************************************************************)
\* number of events applied in one behaviour
MaxMissingEvents == 3

MissingApply(A) == ApplyUpTo(MaxMissingEvents, A)

\* p.get('Channel', '') is '' when the header is absent or empty
MissingNewchannel ==
    \E callerid \in {NoField, Ext120}, exten \in {NoField, Ext120},
       uniqueid \in {NoField, Id1}, linkedid \in {NoField, Id1} :
        MissingApply(_ev_Newchannel(NoField, callerid, exten, uniqueid, linkedid))
MissingBridge ==
    \E ch1 \in {NoField, Ch110a}, ch2 \in {NoField, Ch110b}, linkedid \in {NoField, Id1} :
        (ch1 = NoField \/ ch2 = NoField) /\ MissingApply(_ev_Bridge(ch1, ch2, linkedid))
MissingHangup == MissingApply(_ev_Hangup(NoField, Id1, Id1, Cause16))
MissingNewstate == MissingApply(_ev_Newstate(NoField, StateUp))
MissingDialBegin == MissingApply(_ev_DialBegin(NoField, Ch110b))

MissingEvent ==
    \/ MissingNewchannel
    \/ MissingBridge
    \/ MissingHangup
    \/ MissingNewstate
    \/ MissingDialBegin

\* whole events
WholeNewchannel == MissingApply(_ev_Newchannel(Ch110a, NoField, Ext120, Id1, Id1))
WholeDialBegin == MissingApply(_ev_DialBegin(Ch110a, Ch110b))

NextMissing ==
    \/ MissingNewchannel
    \/ MissingBridge
    \/ MissingHangup
    \/ MissingNewstate
    \/ MissingDialBegin
    \/ WholeNewchannel
    \/ WholeDialBegin

SpecMissing == Init /\ [][NextMissing]_vars

(***************************************************************************)
(* Queue members (ami.py:1763-1837, 2241-2329, 2465-2508): the member      *)
(* events, queue_add, queue_remove and the members of the queue sync       *)
(***************************************************************************)
\* number of member events, calls and syncs in one behaviour
MaxMemberEvents == 3

Member201 == PJSIP \o Ext201
Interfaces == {Member200, Member201}

\* f"{queue}:{member}"
member_key(queue, member) == queue \o <<":">> \o member

\* the member info, restricted to the key 'dynamic'
MemberInfo(is_dynamic) == [dynamic |-> is_dynamic]

\* the monitor's member fields, and queues as far as the members need it
Members ==
    [queue_members |-> queue_members, queues_members |-> queues_members,
     dynamic_members |-> dynamic_members, queues |-> queues]

\* queue_members[member_key] = {...} and queues[queue]['members'][member] =
\* {...}, when create is set after `if queue not in self.queues:
\* self.queues[queue] = {'members': {}, 'calls_waiting': 0}`, otherwise
\* under `if q_name in self.queues`
SetMember(m, queue, member, is_dynamic, create) ==
    LET qs == IF create /\ queue \notin DOMAIN m.queues
              THEN Put(m.queues, queue, [calls_waiting |-> 0])
              ELSE m.queues
        view == Get(m.queues_members, queue, EmptyDict)
    IN  [m EXCEPT !.queue_members = Put(@, member_key(queue, member), MemberInfo(is_dynamic)),
                  !.queues = qs,
                  !.queues_members =
                      IF queue \in DOMAIN qs
                      THEN Put(@, queue, Put(view, member, MemberInfo(is_dynamic)))
                      ELSE @]

\* queue_members.pop(member_key, None), dynamic_members.discard(member_key)
\* and del queues[queue]['members'][member]
DelMember(m, queue, member) ==
    LET key == member_key(queue, member)
    IN  [m EXCEPT !.queue_members = Pop(@, key),
                  !.dynamic_members = @ \ {key},
                  !.queues_members =
                      IF queue \in DOMAIN m.queues /\ queue \in DOMAIN @
                         /\ member \in DOMAIN @[queue]
                      THEN [@ EXCEPT ![queue] = Pop(@, member)]
                      ELSE @]

\* _add_queue_member(item), item = [queue, interface, membership]
_add_queue_member(m, item) ==
    LET member_key_ == member_key(item.queue, item.interface)
        membership == lower(item.membership)
        tracked == IF membership = <<"d", "y", "n", "a", "m", "i", "c">>
                   THEN m.dynamic_members \cup {member_key_}
                   ELSE IF membership \in {<<"s", "t", "a", "t", "i", "c">>,
                                           <<"r", "e", "a", "l", "t", "i", "m", "e">>}
                   THEN m.dynamic_members \ {member_key_}
                   ELSE m.dynamic_members
    IN  SetMember([m EXCEPT !.dynamic_members = tracked], item.queue, item.interface,
                  member_key_ \in tracked, FALSE)

RECURSIVE AddQueueMembers(_, _)
AddQueueMembers(m, items) ==
    IF items = <<>> THEN m
    ELSE AddQueueMembers(_add_queue_member(m, Head(items)), Tail(items))

\* the monitor's fields become those of the record m
MembersBecome(m) ==
    /\ queue_members' = m.queue_members
    /\ queues_members' = m.queues_members
    /\ dynamic_members' = m.dynamic_members
    /\ queues' = m.queues

MemberRest ==
    << active_calls, ch2ext, ch_callerid, destch2ext, queue_entries, ch2uniqueid,
       ch2linkedid, linkedid2channels, linkedid_crm_sent, crm_tasks, crm_pending,
       crm_records, notifications, event_task >>

_ev_QueueMemberStatus(queue, member) ==
    LET key == member_key(queue, member)
    IN  /\ event_task = "running"
        /\ IF Truthy(queue) /\ Truthy(member)
           THEN MembersBecome(SetMember(Members, queue, member, key \in dynamic_members, TRUE))
           ELSE UNCHANGED << queue_members, queues_members, dynamic_members, queues >>
        /\ last' = [ev |-> "QueueMemberStatus", key |-> key]
        /\ UNCHANGED << not_dynamic, appeared, MemberRest >>

_ev_QueueMemberAdded(queue, member) ==
    LET key == member_key(queue, member)
    IN  /\ event_task = "running"
        /\ IF Truthy(queue) /\ Truthy(member)
           THEN MembersBecome(
                  SetMember([Members EXCEPT !.dynamic_members = @ \cup {key}],
                            queue, member, TRUE, TRUE))
           ELSE UNCHANGED << queue_members, queues_members, dynamic_members, queues >>
        /\ last' = [ev |-> "QueueMemberAdded", key |-> key]
        /\ not_dynamic' = not_dynamic \ {key}
        /\ appeared' = appeared \cup {key}
        /\ UNCHANGED MemberRest

_ev_QueueMemberRemoved(queue, member) ==
    LET key == member_key(queue, member)
    IN  /\ event_task = "running"
        /\ IF Truthy(queue) /\ Truthy(member)
           THEN MembersBecome(DelMember(Members, queue, member))
           ELSE UNCHANGED << queue_members, queues_members, dynamic_members, queues >>
        /\ last' = [ev |-> "QueueMemberRemoved", key |-> key]
        /\ not_dynamic' = not_dynamic \ {key}
        /\ UNCHANGED << appeared, MemberRest >>

\* queue_add(queue, interface), with the response of Asterisk to QueueAdd;
\* no event is handled between the request and the response in the model
queue_add(queue, interface, success) ==
    LET key == member_key(queue, interface)
    IN  /\ IF success
           THEN /\ MembersBecome(
                     SetMember([Members EXCEPT !.dynamic_members = @ \cup {key}],
                               queue, interface, TRUE, TRUE))
                /\ not_dynamic' = not_dynamic \ {key}
                /\ appeared' = appeared \cup {key}
           ELSE UNCHANGED << queue_members, queues_members, dynamic_members, queues,
                             not_dynamic, appeared >>
        /\ last' = [ev |-> "queue_add", key |-> key]
        /\ UNCHANGED MemberRest

\* queue_remove(queue, interface), with the response of Asterisk to
\* QueueRemove: Success, the error 'Member not dynamic', or another error
RemoveResponses == {"Success", "Member not dynamic", "No such queue"}

queue_remove(queue, interface, resp) ==
    LET key == member_key(queue, interface)
        marked == [Members EXCEPT
                     !.queue_members =
                         IF key \in DOMAIN @ THEN [@ EXCEPT ![key].dynamic = FALSE] ELSE @,
                     !.queues_members =
                         IF queue \in DOMAIN queues /\ queue \in DOMAIN @
                            /\ interface \in DOMAIN @[queue]
                         THEN [@ EXCEPT ![queue][interface].dynamic = FALSE]
                         ELSE @]
    IN  /\ IF key \notin DOMAIN queue_members
           THEN UNCHANGED << queue_members, queues_members, dynamic_members, queues,
                             not_dynamic >>
           ELSE IF resp = "Success"
           THEN /\ MembersBecome(DelMember(Members, queue, interface))
                /\ not_dynamic' = not_dynamic \ {key}
           ELSE IF resp = "Member not dynamic"
           THEN /\ MembersBecome(marked)
                /\ not_dynamic' = not_dynamic \cup {key}
           ELSE UNCHANGED << queue_members, queues_members, dynamic_members, queues,
                             not_dynamic >>
        /\ last' = [ev |-> "queue_remove", key |-> key]
        /\ UNCHANGED << appeared, MemberRest >>

\* the Membership header of a QueueMember row: absent, or one of the values
\* of Asterisk
Memberships == {<<>>, <<"d", "y", "n", "a", "m", "i", "c">>, <<"s", "t", "a", "t", "i", "c">>}

\* sync_queue_status for the queue of the summary (no caller waits), whose
\* QueueStatus response lists the QueueMember rows items: the queue is
\* initialised with 'members': {} (2386-2388), then each row is handed to
\* _add_queue_member (2411-2412, 2459-2460)
sync_queue_members(queue, items) ==
    LET summary == [q \in {queue} |-> 0]
        reset == [Members EXCEPT
                    !.queues = Put(@, queue, [calls_waiting |-> 0]),
                    !.queues_members = Put(@, queue, EmptyDict)]
        m == AddQueueMembers(reset, items)
        keys(ms) == {member_key(items[i].queue, items[i].interface) :
                        i \in {i \in 1..Len(items) : items[i].membership \in ms}}
    IN  /\ sync_queue_status(summary, <<queue>>, [q \in {queue} |-> {}])
        /\ queue_members' = m.queue_members
        /\ queues_members' = m.queues_members
        /\ dynamic_members' = m.dynamic_members
        /\ not_dynamic' = (not_dynamic \cup keys({<<"s", "t", "a", "t", "i", "c">>}))
                             \ keys({<<"d", "y", "n", "a", "m", "i", "c">>})
        /\ appeared' = appeared \cup keys(Memberships \ {<<>>})

\* one member event the reader dispatches, one call of the API, or one sync
MemberApply(A) ==
    /\ nevents < MaxMemberEvents
    /\ nevents' = nevents + 1
    /\ A
    /\ UNCHANGED << flow, script, now, monitored, server_vars, transport_vars >>

QueueMemberStatus == \E member \in Interfaces :
                        MemberApply(_ev_QueueMemberStatus(Q901, member))
QueueMemberAdded == \E member \in Interfaces :
                       MemberApply(_ev_QueueMemberAdded(Q901, member))
QueueMemberRemoved == \E member \in Interfaces :
                         MemberApply(_ev_QueueMemberRemoved(Q901, member))
QueueAdd == \E member \in Interfaces, success \in BOOLEAN :
               MemberApply(queue_add(Q901, member, success))
QueueRemove == \E member \in Interfaces, resp \in RemoveResponses :
                  MemberApply(queue_remove(Q901, member, resp))
SyncQueueMembers ==
    \E listed \in SUBSET Interfaces, membership \in [Interfaces -> Memberships] :
        \E order \in ListsOf(listed) :
            MemberApply(sync_queue_members(Q901,
                [i \in 1..Len(order) |->
                    [queue |-> Q901, interface |-> order[i],
                     membership |-> membership[order[i]]]]))

NextMembers ==
    \/ QueueMemberStatus
    \/ QueueMemberAdded
    \/ QueueMemberRemoved
    \/ QueueAdd
    \/ QueueRemove
    \/ SyncQueueMembers

SpecMembers == Init /\ [][NextMembers]_vars

(***************************************************************************)
(* Properties                                                              *)
(***************************************************************************)
\* C1: for every (linkedid, uniqueid) pair the Hangup handler creates at most
\* one CRM send task, over every sequence of events, repeated Hangup events
\* for the same channel included.
C1_AtMostOneCrmSend == \A key \in DOMAIN crm_tasks : crm_tasks[key] <= 1

\* C2: no single event terminates the correlator: whatever event a handler
\* is given, the task reading events is still running afterwards.
C2_ReaderSurvivesEveryEvent == event_task = "running"

\* C7: after every event, every channel held in the set of some linkedid is
\* a live channel, a key of ch2ext.
C7_GroupedChannelsAreLive ==
    \A linkedid \in DOMAIN linkedid2channels :
        linkedid2channels[linkedid] \subseteq DOMAIN ch2ext

\* C8: every live channel is in the set of at most one linkedid, and that
\* linkedid is the one ch2linkedid records for the channel.
C8_OneGroupPerChannel ==
    \A ch \in DOMAIN ch2ext :
        \A linkedid \in DOMAIN linkedid2channels :
            ch \in linkedid2channels[linkedid] =>
                ch \in DOMAIN ch2linkedid /\ ch2linkedid[ch] = linkedid

\* C9: when a Hangup has emptied the set of linkedid L, linkedid_crm_sent
\* holds no key that starts with "L:" once the handler has returned, the
\* key written by that same Hangup included.
C9_PurgedWhenGroupEmpties ==
    (last.ev = "Hangup" /\ last.emptied) =>
        \A key \in linkedid_crm_sent : ~startswith(key, last.linkedid \o <<":">>)

\* C10: a Hangup carrying a linkedid is classified final exactly when no
\* other channel of the linkedid's set is both live and not a trunk channel
\* (PJSIP/asterisk-* or SIP/asterisk-*).
C10_FinalIffNoLiveNonTrunk ==
    (last.ev = "Hangup" /\ Truthy(last.linkedid) /\ ~last.raised) =>
        (last.final <=> \A ch \in last.live_rest : is_trunk_channel(ch))

\* C6: after every event and every queue sync, calls_waiting of each queue
\* is the number of queue entries whose queue it is.
C6_CallsWaitingIsEntryCount ==
    \A queue \in DOMAIN queues :
        queues[queue].calls_waiting = waiting_count(queue_entries, queue)

\* C3: at any instant at most one task is reading the AMI socket, whether
\* the event reader or a task inside _send_async, _send_action_with_events
\* or _read_async.
C3_OneSocketReader == Cardinality({t \in Tasks : pc[t] = "read"}) <= 1

\* the event reader is reading the socket while a task that has called a
\* transport method is waiting for the lock
C3_ReaderReadsWhileCallerWaits == pc["reader"] = "read" /\ pc["caller"] = "acquire"

\* C4: the sequence of watched events the handlers have been applied to is
\* the sequence of watched event frames Asterisk has delivered: always a
\* prefix of it, and all of it once nothing is left to read or dispatch,
\* frames that arrive while an action holds the lock included.
C4_AppliedIsDelivered ==
    /\ Len(applied) <= Len(delivered)
    /\ SubSeq(delivered, 1, Len(applied)) = applied
    /\ (/\ event_task = "running"
        /\ sock = <<>>
        /\ EndPositions(buffer) = {}
        /\ \A t \in Tasks : pc[t] = "idle") => applied = delivered

\* C5: every text the event reader hands to the parser is, after any line
\* breaks in front of it, one whole frame as Asterisk wrote it, however the
\* reads cut the bytes, a frame cut between a read of the event reader and a
\* read of an action sender included.
C5_ParsedFramesAreWhole ==
    \A raw \in parsed :
        lstrip(raw) \in EventFrames \cup {ResponseFrame, StatusCompleteFrame}

\* C11: a Hangup of a trunk or system channel (PJSIP/asterisk-* or
\* SIP/asterisk-*) creates no CRM send task, in any state, even when the
\* channel is the last one of its linkedid's set.
C11_TrunkHangupSchedulesNothing ==
    [][(/\ nevents' # nevents /\ last'.ev = "Hangup"
        /\ \/ startswith(last'.ch, PJSIP \o ASTERISK)
           \/ startswith(last'.ch, SIP \o ASTERISK))
          => crm_tasks' = crm_tasks]_vars

\* a trunk channel has hung up as the last channel of its linkedid's set
C11_TrunkHungUpLast ==
    /\ last.ev = "Hangup" /\ last.final /\ last.emptied
    /\ startswith(last.ch, SIP \o ASTERISK)

\* C12: a Hangup that carries no Linkedid, for a channel tracked under no
\* linkedid, creates no CRM send task.
C12_NoLinkedidSchedulesNothing ==
    [][(nevents' # nevents /\ last'.ev = "Hangup" /\ ~Truthy(last'.linkedid))
          => crm_tasks' = crm_tasks]_vars

\* a channel with a Uniqueid and no linkedid, neither in the event nor
\* tracked, has hung up
C12_HungUpWithoutLinkedid ==
    /\ last.ev = "Hangup" /\ Truthy(last.ch)
    /\ ~Truthy(last.linkedid) /\ Truthy(last.uniqueid)

C14_AbandonedQueueCallRecord ==
    (flow.name = "queue" /\ CallOver)
        => /\ Len(crm_records) = 1
           /\ crm_records[1].Channel = ChSbc
           /\ crm_records[1].call_status = "noanswer"

\* C15: the internal call of 110 to 120 (Newchannel on 110's channel with
\* Exten 120, DialBegin to 120's channel, Newstate Up on it, Bridge with a
\* linkedid, Hangup cause 16 on 110's channel and then on 120's) yields
\* exactly one CRM record, with caller 110, destination 120, call_type
\* internal and call_status completed.
C15_InternalCallRecord ==
    (flow.name = "internal" /\ flow.first = "caller" /\ CallOver)
        => /\ Len(crm_records) = 1
           /\ crm_records[1].caller = Ext110
           /\ crm_records[1].destination = Ext120
           /\ crm_records[1].call_type = "internal"
           /\ crm_records[1].call_status = "completed"

\* C16: the inbound trunk call (Newchannel on PJSIP/sbc-a with an external
\* caller id and Exten 110, DialBegin to 110's channel, Newstate Up, Bridge,
\* Hangup cause 16 on 110's channel and then on the trunk channel) yields
\* exactly one CRM record, created by the hangup of 110's channel, with the
\* external number as caller, destination 110, call_type inbound and
\* call_status completed.
C16_InboundTrunkCallRecord ==
    (flow.name = "inbound" /\ flow.first = "callee" /\ CallOver)
        => /\ Len(crm_records) = 1
           /\ crm_records[1].Channel = Ch110b
           /\ crm_records[1].caller = flow.cid
           /\ crm_records[1].destination = Ext110
           /\ crm_records[1].call_type = "inbound"
           /\ crm_records[1].call_status = "completed"

\* the channel of the extension that hangs up first (X) and second (Y) in a
\* call between 110 and 120
FirstToHangUp == IF flow.first = "caller" THEN Ch110a ELSE Ch120b
LastToHangUp == IF flow.first = "caller" THEN Ch120b ELSE Ch110a

\* C17: when X's channel hangs up while Y's channel of the same linkedid is
\* live, no CRM task is created, no record is emitted and X's call record is
\* removed from active_calls; when Y's channel then hangs up as the final
\* channel, a CRM task of Y's extension is created, and the record emitted
\* for the call is Y's.
C17_TransferHangups ==
    /\ [][(flow.name = "internal" /\ nevents' # nevents /\ last'.ev = "Hangup")
            => IF last'.ch = FirstToHangUp
               THEN /\ ~last'.final /\ last'.live_rest = {LastToHangUp}
                    /\ crm_pending' = crm_pending /\ crm_tasks' = crm_tasks
                    /\ crm_records' = crm_records
                    /\ _ext_from_channel(FirstToHangUp) \notin DOMAIN active_calls'
               ELSE /\ last'.final
                    /\ Len(crm_pending') = Len(crm_pending) + 1
                    /\ crm_pending'[Len(crm_pending')].ext = _ext_from_channel(LastToHangUp)
                    /\ crm_pending'[Len(crm_pending')].Channel = LastToHangUp]_vars
    /\ []((flow.name = "internal" /\ CallOver)
            => /\ Len(crm_records) = 1
               /\ crm_records[1].ext = _ext_from_channel(LastToHangUp)
               /\ crm_records[1].Channel = LastToHangUp)

\* X has hung up without a record, Y has hung up last, and Y's record is out
C17_RecordOfLastChannel ==
    /\ flow.name = "internal" /\ CallOver
    /\ last.ev = "Hangup" /\ last.ch = LastToHangUp /\ last.final
    /\ Len(crm_records) = 1 /\ crm_records[1].ext = _ext_from_channel(LastToHangUp)
    /\ _ext_from_channel(FirstToHangUp) \notin DOMAIN active_calls

\* C18: a single extension channel that dials the feature code *43
\* (Newchannel with Exten *43, Newstate Up, Hangup cause 16) produces no CRM
\* record and no missed-call notification.
C18_FeatureCodeLeavesNoTrace ==
    flow.name = "feature" => crm_records = <<>> /\ notifications = {}

\* C19: a Hangup for a channel the correlator does not know (no index and no
\* call mentions it) leaves every other channel as it was: its extension
\* mapping, caller id, uniqueid mapping, destination-channel mapping and
\* queue entry are the same before and after, even when the name of the
\* unknown channel gives the extension of a known channel.
C19_UnknownHangupTouchesNoOtherChannel ==
    [][(/\ nevents' # nevents /\ last'.ev = "Hangup"
        /\ last'.ch \notin DOMAIN ch2ext \cup DOMAIN ch_callerid \cup DOMAIN ch2uniqueid
        /\ last'.ch \notin DOMAIN ch2linkedid \cup DOMAIN destch2ext
        /\ \A linkedid \in DOMAIN linkedid2channels :
              last'.ch \notin linkedid2channels[linkedid]
        /\ \A ext \in DOMAIN active_calls :
              /\ active_calls[ext].channel # last'.ch
              /\ active_calls[ext].destchannel # last'.ch)
          => /\ ch2ext' = ch2ext
             /\ ch_callerid' = ch_callerid
             /\ ch2uniqueid' = ch2uniqueid
             /\ destch2ext' = destch2ext
             /\ \A ch \in DOMAIN ch2uniqueid :
                   ch2uniqueid[ch] \in DOMAIN queue_entries
                       => ch2uniqueid[ch] \in DOMAIN queue_entries']_vars

\* C20: in every reachable state, applying a Hangup event twice in succession
\* leaves the correlator state (the channel, call, linkedid and queue maps
\* and linkedid_crm_sent) as applying it once leaves it.
C20_HangupTwiceIsHangupOnce ==
    \A ch \in Channels, linkedid \in OptIds :
        LET once == HangupOutcome(ch, UniqueidOf(ch), linkedid, Cause16)
            twice == HangupFrom(once, ch, UniqueidOf(ch), linkedid, Cause16)
        IN  ~once.raised =>
              /\ ~twice.raised
              /\ \A f \in {"active_calls", "ch2ext", "ch_callerid", "destch2ext", "queues",
                            "queue_entries", "ch2uniqueid", "ch2linkedid",
                            "linkedid2channels", "linkedid_crm_sent"} :
                    twice[f] = once[f]

\* a value of start_time or answer_time that is a datetime
IsTime(v) == Len(v) = 2 /\ v[1] = "<datetime>"

\* C21: after every event, every call record has answer_time unset or
\* answer_time >= start_time, also when a QueueCallerJoin rewrites the
\* start_time of a record that has been answered.
C21_AnswerNotBeforeStart ==
    \A ext \in DOMAIN active_calls :
        (IsTime(active_calls[ext].answer_time) /\ IsTime(active_calls[ext].start_time))
            => active_calls[ext].answer_time[2] >= active_calls[ext].start_time[2]

\* C22: after every event, every key of active_calls is a monitored
\* extension or its call record has a queue field.
C22_CallKeysMonitoredOrQueued ==
    \A ext \in DOMAIN active_calls :
        ext \in monitored \/ active_calls[ext].queue # None

\* C29: after a Hangup for channel C, whatever the mappings were, C is in
\* none of ch2ext, ch_callerid, ch2uniqueid, ch2linkedid, destch2ext, and in
\* no linkedid group.
C29_HangupRemovesChannelEverywhere ==
    last.ev = "Hangup" =>
        /\ last.ch \notin DOMAIN ch2ext
        /\ last.ch \notin DOMAIN ch_callerid
        /\ last.ch \notin DOMAIN ch2uniqueid
        /\ last.ch \notin DOMAIN ch2linkedid
        /\ last.ch \notin DOMAIN destch2ext
        /\ \A l \in DOMAIN linkedid2channels : last.ch \notin linkedid2channels[l]

\* the reasons a missed, busy or failed hangup is given
MissedReasons == {"busy", "noanswer", "switched_off", "failed", "invalid_number"}

\* C30: a Hangup inserts a call notification only when the call record of
\* the extension it is recorded against has no answer_time and the cause
\* maps to busy, noanswer, switched_off, failed or invalid_number; a Hangup
\* with cause 16 and the Hangup of an answered call insert none.
C30_NotificationOnlyForMissedCall ==
    [][\A n \in notifications' \ notifications :
          /\ n.reason \in MissedReasons
          /\ n.extension \in DOMAIN active_calls
                => ~IsTime(active_calls[n.extension].answer_time)]_vars

\* a busy hangup of a call nobody answered has been notified
C30_BusyHangupNotified ==
    /\ last.ev = "Hangup"
    /\ \E n \in notifications : n.reason = "busy"

\* C23: after end-of-stream or a read error on the AMI socket the event
\* reader has stopped and the connected flag is false.
C23_StoppedReaderMeansDisconnected == event_task = "done" => ~connected

\* C24: when the response to the Login lacks "Response: Success", connect()
\* returns failure with the TCP connection closed and connected false.
C24_RejectedLoginClosesConnection ==
    [][(pc["caller"] = "response" /\ pc'["caller"] = "idle")
          => (returned' = PyFalse /\ ~connected' /\ writer' = "closed")]_vars

\* C25: every multi-event action returns and has left the read lock; when it
\* returns, what it returns and what is left on the socket are together the
\* bytes accumulated so far and the bytes unread (or it returns None after
\* a read error).
C25_MultiEventActionReturns ==
    /\ (pc["caller"] # "idle" /\ op = "_send_action_with_events")
          ~> (pc["caller"] = "idle" /\ read_lock # "caller")
    /\ [][(op = "_send_action_with_events" /\ pc["caller"] = "read" /\ pc'["caller"] = "idle")
            => /\ read_lock' = Free
               /\ returned' = None \/ returned' \o sock' = join(chunks) \o sock]_vars

\* the deadline has ended a multi-event action with part of the response
C25_ReturnedAtDeadline ==
    /\ pc["caller"] = "idle" /\ nactions > 0 /\ read_lock = Free
    /\ returned = ResponseFrame
    /\ sock = StatusCompleteFrame

\* the messages a subscriber outside the admin role may be pushed
InScope(ws, message) ==
    LET scope == get_scope(ws)
    IN  /\ message.type = "state_update" =>
              /\ DOMAIN message.data.extensions \subseteq scope.allowed_agent_extensions
              /\ DOMAIN message.data.active_calls \subseteq scope.allowed_agent_extensions
              /\ DOMAIN message.data.queues \subseteq scope.allowed_queue_names
              /\ \A u \in DOMAIN message.data.queue_entries :
                    message.data.queue_entries[u].queue \in scope.allowed_queue_names
        /\ message.type = "call_notification_new" =>
              message.extension \in scope.allowed_agent_extensions

\* C26: every message pushed to a subscriber that is not an admin names
\* only extensions and queues inside the subscriber's scope.
C26_PushedMessagesStayInScope ==
    \A ws \in Subscribers :
        get_scope(ws).role # "admin" => InScope(ws, pushed[ws])

\* C27: the state_update messages of one broadcast carry the same data to
\* subscribers with the same scope, also when AMI events are processed
\* while the broadcast is in progress.
C27_OneBroadcastOneSnapshot ==
    \A ws1, ws2 \in Subscribers :
        (/\ get_scope(ws1) = get_scope(ws2)
         /\ pushed[ws1].type = "state_update"
         /\ pushed[ws2].type = "state_update")
            => pushed[ws1].data = pushed[ws2].data

StatusOfCause(cause) ==
    IF cause = <<"1", "6">> THEN "completed"
    ELSE IF cause \in {<<"1", "7">>, <<"0">>} THEN "busy"
    ELSE IF cause \in {<<"1", "8">>, <<"1", "9">>, <<"1", "2", "7">>} THEN "noanswer"
    ELSE IF cause = <<"2", "0">> THEN "switched_off"
    ELSE IF cause \in {<<"2", "8">>, <<"3", "4">>} THEN "invalid_number"
    ELSE "failed"

StatusOfDial(dialstatus, status) ==
    LET name == IF dialstatus = None THEN <<>> ELSE upper(dialstatus)
    IN  IF name = <<"B", "U", "S", "Y">> THEN "busy"
        ELSE IF name \in {<<"N", "O", "A", "N", "S", "W", "E", "R">>,
                          <<"C", "A", "N", "C", "E", "L">>} THEN "noanswer"
        ELSE IF name \in {<<"C", "O", "N", "G", "E", "S", "T", "I", "O", "N">>,
                          <<"C", "H", "A", "N", "U", "N", "A", "V", "A", "I", "L">>}
        THEN "failed"
        ELSE status

StatusOfQueue(queue_answered, status) ==
    IF queue_answered = PyTrue /\ status \in {"noanswer", "failed"} THEN "completed"
    ELSE status

\* C31: the call_status of every CRM record is the status the table gives
\* for the hangup cause, overridden by a dial status of BUSY, NOANSWER,
\* CANCEL, CONGESTION or CHANUNAVAIL, and then turned from noanswer or
\* failed into completed when queue_answered is set.
C31_CallStatusFollowsTable ==
    \A i \in DOMAIN crm_records :
        crm_records[i].call_status =
            StatusOfQueue(last.queue_answered,
                          StatusOfDial(last.dialstatus, StatusOfCause(last.Cause)))

\* a record where all three steps acted: cause 16 (completed), dial status
\* CANCEL (noanswer), queue_answered (completed)
C31_CancelledThenQueueAnswered ==
    /\ Len(crm_records) = 1
    /\ last.Cause = <<"1", "6">>
    /\ last.dialstatus = <<"C", "A", "N", "C", "E", "L">>
    /\ last.queue_answered = PyTrue
    /\ crm_records[1].call_status = "completed"

\* the predicate of the meaningful number as the specification words it
MeaningfulAsSpecified(v) ==
    /\ v # None /\ v # <<>>
    /\ isdigit(v) \/ (Head(v) = "*" /\ isdigit(Tail(v)))
    /\ v \notin DIALPLAN_CTX
    /\ Len(v) > 2
    /\ ~(Len(v) = 4 /\ isdigit(v) /\ Head(v) = "5")

\* C32: _meaningful(v) is true exactly when v is non-empty, is all digits
\* or a star followed by digits, is no dialplan context keyword, is longer
\* than two characters and is no 4-digit string beginning with 5.
C32_MeaningfulAsSpecified ==
    (flow.name = "_meaningful" /\ flow.applied) =>
        (flow.result <=> MeaningfulAsSpecified(flow.value))

\* a channel whose name has no digits between the '/' and the '-': a trunk
\* or system channel
NoDigitPrefix(ch) == Truthy(ch) /\ _ext_from_channel(ch) = None

\* C33: a channel whose name has a non-digit prefix after the '/' is never
\* mapped to an owning extension and is never the primary channel of a call
\* record, under any sequence of events.
C33_TrunkChannelOwnsNothing ==
    /\ \A ch \in DOMAIN ch2ext : NoDigitPrefix(ch) => ~Truthy(ch2ext[ch])
    /\ \A ext \in DOMAIN active_calls : ~NoDigitPrefix(active_calls[ext].channel)

\* C34: a Newchannel whose only extension candidate is the dialplan context
\* keyword s, on a channel without a digit prefix, never leads to an entry
\* in a snapshot, whatever events follow on that channel: no snapshot shows
\* a call on that channel.
C34_ContextChannelNeverShown ==
    /\ \A ext \in DOMAIN AdminState.active_calls :
          AdminState.active_calls[ext].channel # ChSbc
    /\ \A ext \in DOMAIN AdminState.extensions :
          AdminState.extensions[ext].call_info.channel # ChSbc

\* C35: a Newstate with state Up for a channel that an extension owns
\* leaves the call record of that extension with answer_time set, whatever
\* event created the record.
C35_UpSetsAnswerTime ==
    [][\A ch \in DOMAIN ch2ext :
          (/\ nevents' = nevents + 1
           /\ last'.ev = "Newstate" /\ last'.ch = ch
           /\ Truthy(ch2ext[ch])
           /\ ch2ext[ch] \in DOMAIN active_calls)
             => IsTime(active_calls'[ch2ext[ch]].answer_time)]_vars

\* C36: after an AgentConnect with linkedid L, every call record whose
\* primary channel is in L's group has dialstatus ANSWER, queue_waiting
\* false, queue_answered true and answered_agent the answering agent.
C36_AgentConnectMarksWholeGroup ==
    last.ev = "AgentConnect" =>
        \A ext \in DOMAIN active_calls :
            active_calls[ext].channel \in Get(linkedid2channels, Id1, {}) =>
                /\ active_calls[ext].dialstatus = ANSWER
                /\ active_calls[ext].queue_waiting = PyFalse
                /\ active_calls[ext].queue_answered = PyTrue
                /\ active_calls[ext].answered_agent = Ext200

\* C37: an event whose identifying field is absent or empty (a Newchannel
\* without Channel, a Bridge without Channel1 or Channel2) leaves the
\* correlator state unchanged.
C37_MissingFieldChangesNothing ==
    [][MissingEvent =>
          UNCHANGED << active_calls, ch2ext, ch_callerid, destch2ext, queues, queue_entries,
                       ch2uniqueid, ch2linkedid, linkedid2channels, linkedid_crm_sent >>]_vars

\* the member with the key is shown as static in both member views
ShownStatic(queue, member) ==
    LET key == member_key(queue, member)
    IN  /\ key \in DOMAIN queue_members => ~queue_members[key].dynamic
        /\ (queue \in DOMAIN queues_members /\ member \in DOMAIN queues_members[queue])
              => ~queues_members[queue][member].dynamic

\* C38: a queue member that has only appeared through syncs without a
\* Membership field and through QueueMemberStatus events has dynamic false
\* in both member views; and a member Asterisk reported as not dynamic is
\* not shown as dynamic again by a later QueueMemberStatus event.
C38_StaticMembersStayStatic ==
    \A member \in Interfaces :
        LET key == member_key(Q901, member)
        IN  /\ key \notin appeared => ShownStatic(Q901, member)
            /\ (last.ev = "QueueMemberStatus" /\ last.key = key /\ key \in not_dynamic)
                  => ShownStatic(Q901, member)

\* C39: the CRM record of a Hangup, and whether there is one, depend only
\* on the correlator state at the moment the Hangup was applied: the send
\* task hands over what it would have handed over had it run right after
\* the Hangup handler, whatever events were applied in between.
C39_RecordDecidedAtHangup ==
    [][RunCrmTask =>
          crm_records' = IF Head(crm_pending).expected.skipped THEN crm_records
                         ELSE Append(crm_records, Head(crm_pending).expected)]_vars

\* an event other than Newchannel that is applied right after the Hangup of
\* its own channel
LateEvent ==
    /\ last.ev = "Hangup"
    /\ nevents' = nevents + 1
    /\ last'.ev \in {"Newstate", "DialBegin", "Bridge"}
    /\ last'.ch = last.ch

\* C40: once the Hangup of a channel has been applied, a later event for
\* that channel other than Newchannel re-creates neither the channel's
\* mapping in ch2ext nor a call record for the channel's extension.
C40_LateEventRecreatesNothing ==
    [][LateEvent =>
          /\ last.ch \in DOMAIN ch2ext' => last.ch \in DOMAIN ch2ext
          /\ _ext_from_channel(last.ch) \in DOMAIN active_calls'
                => _ext_from_channel(last.ch) \in DOMAIN active_calls]_vars

====
